---- MODULE Spec2Model ----
(***************************************************************************)
(* A model of the timelock encryption library: the hash utilities, the     *)
(* Boneh-Franklin FullIdent IBE, the timelock composition and the C FFI.   *)
(*                                                                         *)
(* Abstractions, stated once:                                              *)
(*  - a byte is one bit (Byte == 0..1), so "flip one bit" is "flip one     *)
(*    element"; a 32-byte block is a sequence of HASH_LENGTH bytes;        *)
(*  - the three pairing groups are cyclic of prime order ScalarOrder and   *)
(*    an element is written by its discrete logarithm, so the generator is *)
(*    1, k*P is k*1 and e(aP, bQ) is a*b in the exponent (bilinear);       *)
(*  - SHA-256, SHAKE-128 and hash-to-curve are fixed functions into their  *)
(*    (small) ranges; like the real ones they are many-to-one.             *)
(***************************************************************************)
EXTENDS Integers, Sequences, FiniteSets, TLC

VARIABLES
    target_endian,  \* byte order of the build target (u64::from_ne_bytes)
    ibe,            \* Identity::encrypt / IBESecret::decrypt: inputs, ciphertext, locals at return;
                    \* under SpecUtils the slices and the result of a hash utility call
    dec,            \* the last IBESecret::decrypt call: inputs, locals at return, result
    tl,             \* wasm tle: inputs and the serialized ciphertext
    tlres,          \* the last wasm tld / decrypt call: inputs and result
    last_error,     \* LAST_ERROR of each thread: None or the text
    heap,           \* the ciphertext allocations handed to the caller
    call,           \* the last FFI call: thread, arguments, code, memory at return;
                    \* under SpecThreads the call each thread is in or has returned from
    seen            \* what callers observed of the failed decryptions so far

ibeVars == <<ibe, dec>>
tlockVars == <<tl, tlres>>
ffiVars == <<last_error, heap, call, seen>>
vars == <<target_endian, ibe, dec, tl, tlres, last_error, heap, call, seen>>

-----------------------------------------------------------------------------
(* Bounds of the model *)

\* bytes in a hash block / secret key / identity digest (32 in the source)
HASH_LENGTH == 2
\* master secrets tried: 1..MaxMsk
MaxMsk == 2
\* longest identity payload id_bytes
MaxIdLen == 2
\* longest message given to the wasm tle
MaxMsgLen == 2
\* drand rounds 0..MaxRound
MaxRound == 2
\* bits of a usize in the model (64 in the source)
UsizeBits == 16

-----------------------------------------------------------------------------
(* Bytes and byte strings *)

Byte == 0..1
ByteBase == Cardinality(Byte)

RECURSIVE Pow(_, _)
Pow(b, n) == IF n = 0 THEN 1 ELSE b * Pow(b, n - 1)

\* all byte strings of exactly n bytes
BytesOfLen(n) == [1..n -> Byte]
\* all byte strings of at most n bytes
BytesUpTo(n) == UNION {BytesOfLen(k) : k \in 0..n}

Zeros(n) == [i \in 1..n |-> 0]

\* the marker of a Rust panic (index out of range, unwrap on Err): a value
\* that can be compared with every byte string and equals none
PANIC == <<-1>>

\* x ^ y on unsigned integers
RECURSIVE Xor(_, _)
Xor(x, y) ==
    IF x = 0 THEN y
    ELSE IF y = 0 THEN x
    ELSE (((x % 2) + (y % 2)) % 2) + 2 * Xor(x \div 2, y \div 2)

\* big-endian value of a byte string
RECURSIVE from_be_bytes(_)
from_be_bytes(s) ==
    IF s = <<>> THEN 0
    ELSE s[Len(s)] + ByteBase * from_be_bytes(SubSeq(s, 1, Len(s) - 1))

\* n as `width` big-endian bytes
to_be_bytes(n, width) ==
    [i \in 1..width |-> (n \div Pow(ByteBase, width - i)) % ByteBase]

Reverse(s) == [i \in 1..Len(s) |-> s[Len(s) + 1 - i]]

\* n as `width` little-endian bytes
to_le_bytes(n, width) == Reverse(to_be_bytes(n, width))

\* bytes of a u64 / usize
U64_SIZE == 8

\* u64::from_ne_bytes / u64::to_ne_bytes on the build target
from_ne_bytes(s) ==
    IF target_endian = "big" THEN from_be_bytes(s) ELSE from_be_bytes(Reverse(s))
to_ne_bytes(n, width) ==
    IF target_endian = "big" THEN to_be_bytes(n, width) ELSE Reverse(to_be_bytes(n, width))

-----------------------------------------------------------------------------
(* Hash utilities: timelock/src/ibe/utils.rs *)

\* the compression of the toy digest: one byte absorbed into the state
RECURSIVE Absorb(_, _)
Absorb(acc, b) ==
    IF b = <<>> THEN acc
    ELSE Absorb((acc * 31 + 7 * Head(b) + Len(b) + 3) % 251, Tail(b))

\* sha256(b): a digest of HASH_LENGTH bytes (the source's 32), whatever Len(b)
sha256(b) == to_be_bytes(Absorb(17, b) % Pow(ByteBase, HASH_LENGTH), HASH_LENGTH)

\* SHAKE-128 read into a MESSAGE_SIZE digest (Message::new); MESSAGE_SIZE is
\* HASH_LENGTH in the source (both 32)
shake128(b) == to_be_bytes(Absorb(59, b) % Pow(ByteBase, HASH_LENGTH), HASH_LENGTH)

\* the u64 chunk width of cross_product_const
CHUNK == 8

\* cross_product_const::<N>(a, b): XOR of the first N bytes, 8 at a time as
\* native-endian words, then the remaining N % 8 bytes one by one. Slicing or
\* indexing past the end of a or b panics.
\* variant: the loop over the remaining N % 8 bytes is left out
cross_product_const_NoRemainder(N, a, b) ==
    LET chunks == N \div CHUNK
        remainder_start == chunks * CHUNK
        chunk_of(i) ==
            LET c == i \div CHUNK
                a_chunk == from_ne_bytes(SubSeq(a, c * CHUNK + 1, c * CHUNK + CHUNK))
                b_chunk == from_ne_bytes(SubSeq(b, c * CHUNK + 1, c * CHUNK + CHUNK))
            IN to_ne_bytes(Xor(a_chunk, b_chunk), CHUNK)[(i % CHUNK) + 1]
    IN IF N > 0 /\ (Len(a) < N \/ Len(b) < N) THEN PANIC
       ELSE [k \in 1..N |-> IF k - 1 < remainder_start THEN chunk_of(k - 1) ELSE 0]

cross_product_const(N, a, b) ==
    LET chunks == N \div CHUNK
        remainder == N % CHUNK
        remainder_start == chunks * CHUNK
        chunk_of(i) ==           \* i is the 0-based byte index inside a chunk
            LET c == i \div CHUNK
                a_chunk == from_ne_bytes(SubSeq(a, c * CHUNK + 1, c * CHUNK + CHUNK))
                b_chunk == from_ne_bytes(SubSeq(b, c * CHUNK + 1, c * CHUNK + CHUNK))
            IN to_ne_bytes(Xor(a_chunk, b_chunk), CHUNK)[(i % CHUNK) + 1]
    IN IF N > 0 /\ (Len(a) < N \/ Len(b) < N) THEN PANIC
       ELSE [k \in 1..N |->
                IF k - 1 < remainder_start THEN chunk_of(k - 1)
                ELSE Xor(a[k], b[k])]

-----------------------------------------------------------------------------
(* The pairing engine: timelock/src/engines/engine.rs *)

\* order of the scalar field and of the three groups (a prime)
ScalarOrder == 5
Scalar == 0..(ScalarOrder - 1)
PublicKeyGroup == Scalar     \* a point k*P, written k
SignatureGroup == Scalar     \* a point k*Q, written k
TargetField == Scalar        \* e(P,Q)^k, written k

\* PublicKeyGroup::generator() and generator_of_signature_group()
generator_pk == 1
generator_of_signature_group == 1

\* point * scalar
Mul(point, s) == (point * s) % ScalarOrder

\* E::pairing(p, q)
pairing(p, q) == (p * q) % ScalarOrder

\* Scalar::from_be_bytes_mod_order
from_be_bytes_mod_order(s) == from_be_bytes(s) % ScalarOrder

\* bytes of a compressed group or target-field element
GT_SERIALIZED_SIZE == 3
serialize_compressed_gt(g) == to_be_bytes(g, GT_SERIALIZED_SIZE)

\* E::hash_to_signature_curve(message): RFC 9380 hash to the signature group
hash_to_signature_curve(message) == Absorb(101, message) % ScalarOrder

\* h2: serialise the target-field element, then sha256
h2(g) == sha256(serialize_compressed_gt(g))

\* h3(a, b) = from_be_bytes_mod_order(sha256(a || b))
\* variant: the two inputs are absorbed in the other order
h3_Swapped(a, b) == from_be_bytes_mod_order(sha256(b \o a))

h3(a, b) == from_be_bytes_mod_order(sha256(a \o b))

\* h4(a) = sha256(a)[..a.len()]; the slice panics when a is longer than the digest
h4(a) ==
    LET o == sha256(a)
    IN IF Len(a) > Len(o) THEN PANIC ELSE SubSeq(o, 1, Len(a))

-----------------------------------------------------------------------------
(* Message and Identity: timelock/src/lib.rs, timelock/src/ibe/fullident.rs *)

\* Message::new(context, message): the SHAKE-128 digest of
\* context || len(message) as 8 little-endian bytes || message, and the
\* concatenation context || message
\* variant: the digest leaves out the length of the message
Message_new_NoLength(context, message) ==
    [digest |-> shake128(context \o message), bytes |-> context \o message]

Message_new(context, message) ==
    LET l == Len(message)
    IN [digest |-> shake128(context \o to_le_bytes(l, U64_SIZE) \o message),
        bytes  |-> context \o message]

\* Message::hash_to_signature_curve hashes the concatenation only
\* variant: the curve point is taken from the domain-separated digest
Message_hash_to_signature_curve_Digest(msg) ==
    hash_to_signature_curve(msg.digest)

Message_hash_to_signature_curve(msg) == hash_to_signature_curve(msg.bytes)

\* Identity::new(ctx, identity)
Identity_new(ctx, identity) == Message_new(ctx, identity)

\* Identity::public: Q_id
Identity_public(identity) == Message_hash_to_signature_curve(identity)

\* Identity::extract(sk) = IBESecret(Q_id * sk)
Identity_extract(identity, sk) == Mul(Identity_public(identity), sk)

\* Identity::encrypt(message, p_pub, rng) with sigma the bytes the rng gave.
\* The result carries the ciphertext and the contents of the locals sigma and
\* r when the function returns (nothing overwrites them).
\* variant: the pairing is taken of p_pub itself, not of r * p_pub
Identity_encrypt_NoScalar(identity, bytes, p_pub, sigma) ==
    LET r == h3(sigma, bytes)
        p == generator_pk
        u == Mul(p, r)
        g_id == pairing(p_pub, Identity_public(identity))
        v_rhs == h2(g_id)
        v == cross_product_const(HASH_LENGTH, sigma, v_rhs)
        w_rhs == h4(sigma)
        w == cross_product_const(HASH_LENGTH, bytes, w_rhs)
    IN [ct |-> [u |-> u, v |-> v, w |-> w], sigma |-> sigma, r |-> r, g_id |-> g_id]

Identity_encrypt(identity, bytes, p_pub, sigma) ==
    LET r == h3(sigma, bytes)
        p == generator_pk
        u == Mul(p, r)
        g_id == pairing(Mul(p_pub, r), Identity_public(identity))
        v_rhs == h2(g_id)
        v == cross_product_const(HASH_LENGTH, sigma, v_rhs)
        w_rhs == h4(sigma)
        w == cross_product_const(HASH_LENGTH, bytes, w_rhs)
    IN [ct |-> [u |-> u, v |-> v, w |-> w],
        sigma |-> sigma, r |-> r, g_id |-> g_id]

\* IBESecret::decrypt(ciphertext) under the secret point `secret`. The result
\* carries Ok(m) or Err(DecryptionFailed) and the contents of the locals
\* sigma and m when the function returns.
\* variant: the recovered message is returned without the check U = rP
IBESecret_decrypt_NoCheck(secret, ciphertext) ==
    LET g == pairing(ciphertext.u, secret)
        sigma_rhs == h2(g)
        sigma == cross_product_const(HASH_LENGTH, ciphertext.v, sigma_rhs)
        m_rhs == h4(sigma)
        m == cross_product_const(HASH_LENGTH, ciphertext.w, m_rhs)
        r == h3(sigma, m)
    IN [ok |-> TRUE, err |-> "", value |-> m, sigma |-> sigma, m |-> m, r |-> r, g |-> g]

IBESecret_decrypt(secret, ciphertext) ==
    LET g == pairing(ciphertext.u, secret)
        sigma_rhs == h2(g)
        sigma == cross_product_const(HASH_LENGTH, ciphertext.v, sigma_rhs)
        m_rhs == h4(sigma)
        m == cross_product_const(HASH_LENGTH, ciphertext.w, m_rhs)
        p == generator_pk
        r == h3(sigma, m)
        u_check == Mul(p, r)
    IN IF u_check # ciphertext.u
       THEN [ok |-> FALSE, err |-> "DecryptionFailed", value |-> <<>>,
             sigma |-> sigma, m |-> m, r |-> r, g |-> g]
       ELSE [ok |-> TRUE, err |-> "", value |-> m,
             sigma |-> sigma, m |-> m, r |-> r, g |-> g]

-----------------------------------------------------------------------------
(* The block cipher provider, AES-GCM-256 (spec 4.4). The body is the       *)
(* plaintext XOR a keystream of (key, nonce); the tag is a keyed digest of  *)
(* (nonce, body) of TAG_SIZE bytes, so like the real tag it is many-to-one. *)

\* bytes of the AES-GCM nonce (12 in the source) and tag (16 in the source)
NONCE_SIZE == 1
TAG_SIZE == 2

Ones(n) == [i \in 1..n |-> 1]

keystream(key, nonce, n) ==
    [i \in 1..n |-> Absorb(29, key \o nonce \o to_be_bytes(i, U64_SIZE)) % ByteBase]

gcm_tag(key, nonce, body) ==
    to_be_bytes(Absorb(43, key \o nonce \o body) % Pow(ByteBase, TAG_SIZE), TAG_SIZE)

\* BlockCipher::seal(key, plaintext, rng): the nonce is the rng's draw
seal(key, plaintext, nonce) ==
    LET ks == keystream(key, nonce, Len(plaintext))
        body == [i \in 1..Len(plaintext) |-> Xor(plaintext[i], ks[i])]
    IN [nonce |-> nonce, body |-> body, tag |-> gcm_tag(key, nonce, body)]

\* variant: the tag is not verified
open_NoTag(key, out) ==
    LET ks == keystream(key, out.nonce, Len(out.body))
    IN [ok |-> TRUE, err |-> "",
        value |-> [i \in 1..Len(out.body) |-> Xor(out.body[i], ks[i])]]

\* BlockCipher::open(key, out): verifies the tag, then removes the keystream
open(key, out) ==
    LET ks == keystream(key, out.nonce, Len(out.body))
    IN IF gcm_tag(key, out.nonce, out.body) # out.tag
       THEN [ok |-> FALSE, err |-> "DecryptionFailed", value |-> <<>>]
       ELSE [ok |-> TRUE, err |-> "",
             value |-> [i \in 1..Len(out.body) |-> Xor(out.body[i], ks[i])]]

-----------------------------------------------------------------------------
(* The timelock composition (spec 4.5) *)

\* b"AES_GCM_256"
CIPHER_SUITE == <<1, 0, 1>>

\* tle(p_pub, msk32, message, identity, rng): seal the payload under msk32,
\* IBE-encrypt msk32, zeroize the local copy of msk32. rng.ok is FALSE when
\* the random source is exhausted.
tle(p_pub, msk32, message, identity, rng) ==
    IF ~rng.ok \/ Len(msk32) # HASH_LENGTH
    THEN [ok |-> FALSE, err |-> "EncryptionFailed"]
    ELSE LET aes_out == seal(msk32, message, rng.nonce)
             header == Identity_encrypt(identity, msk32, p_pub, rng.sigma)
         IN [ok |-> TRUE, err |-> "",
             value |-> [header |-> header.ct, body |-> aes_out,
                        cipher_suite |-> CIPHER_SUITE],
             msk32 |-> Zeros(HASH_LENGTH)]

\* tld(ct, signature): IBE-decrypt the header to the session key, open the
\* body under it. `cause` is the step that failed; the error is the same.
tld(ct, signature) ==
    LET d == IBESecret_decrypt(signature, ct.header)
    IN IF ~d.ok
       THEN [ok |-> FALSE, err |-> "DecryptionFailed", cause |-> "ibe", value |-> <<>>]
       ELSE LET o == open(d.value, ct.body)
            IN IF ~o.ok
               THEN [ok |-> FALSE, err |-> "DecryptionFailed", cause |-> "aead",
                     value |-> <<>>]
               ELSE [ok |-> TRUE, err |-> "", cause |-> "", value |-> o.value]

-----------------------------------------------------------------------------
(* Serialization (spec 4.7): U, V, W, nonce, body_len (u64 LE), body, tag,  *)
(* cipher_suite_len (u64 LE), cipher_suite                                  *)

\* bytes of a compressed group element (96 and 48 in the source)
POINT_SIZE == 3

serialize_point(p) == to_be_bytes(p, POINT_SIZE)

\* variant: any bytes are taken for a group element
deserialize_point_Lenient(b) ==
    [ok |-> TRUE, err |-> "", value |-> Absorb(0, b) % ScalarOrder]

\* deserialize_compressed of a group element: the length and the encoding are
\* validated
deserialize_point(b) ==
    IF Len(b) # POINT_SIZE \/ (\E i \in 1..Len(b) : b[i] \notin Byte)
    THEN [ok |-> FALSE, err |-> "InvalidData"]
    ELSE IF from_be_bytes(b) >= ScalarOrder
         THEN [ok |-> FALSE, err |-> "InvalidData"]
         ELSE [ok |-> TRUE, err |-> "", value |-> from_be_bytes(b)]

from_le_bytes(s) == from_be_bytes(Reverse(s))

serialize_compressed(ct) ==
    serialize_point(ct.header.u) \o ct.header.v \o ct.header.w
        \o ct.body.nonce
        \o to_le_bytes(Len(ct.body.body), U64_SIZE) \o ct.body.body
        \o ct.body.tag
        \o to_le_bytes(Len(ct.cipher_suite), U64_SIZE) \o ct.cipher_suite

HEADER_SIZE == POINT_SIZE + HASH_LENGTH + HASH_LENGTH

\* TLECiphertext::deserialize_compressed: every length field is validated
\* against the bytes that remain; bytes after the last field are not read
deserialize_compressed(b) ==
    LET bad == [ok |-> FALSE, err |-> "InvalidData"]
        len_at == HEADER_SIZE + NONCE_SIZE
        body_at == len_at + U64_SIZE
    IN IF Len(b) < body_at \/ (\E i \in 1..Len(b) : b[i] \notin Byte) THEN bad
       ELSE LET u == deserialize_point(SubSeq(b, 1, POINT_SIZE))
                body_len == from_le_bytes(SubSeq(b, len_at + 1, body_at))
                tag_at == body_at + body_len
                cs_len_at == tag_at + TAG_SIZE
                cs_at == cs_len_at + U64_SIZE
            IN IF ~u.ok \/ Len(b) < cs_at THEN bad
               ELSE LET cs_len == from_le_bytes(SubSeq(b, cs_len_at + 1, cs_at))
                    IN IF Len(b) < cs_at + cs_len THEN bad
                       ELSE [ok |-> TRUE, err |-> "",
                             value |->
                               [header |->
                                  [u |-> u.value,
                                   v |-> SubSeq(b, POINT_SIZE + 1, POINT_SIZE + HASH_LENGTH),
                                   w |-> SubSeq(b, POINT_SIZE + HASH_LENGTH + 1, HEADER_SIZE)],
                                body |->
                                  [nonce |-> SubSeq(b, HEADER_SIZE + 1, len_at),
                                   body |-> SubSeq(b, body_at + 1, tag_at),
                                   tag |-> SubSeq(b, tag_at + 1, cs_len_at)],
                                cipher_suite |-> SubSeq(b, cs_at + 1, cs_at + cs_len)]]

\* variant: the body is decrypted without the verification of its tag
decrypt_NoTag(ciphertext_bytes, secret_key) ==
    LET ciphertext == deserialize_compressed(ciphertext_bytes)
    IN IF Len(secret_key) # HASH_LENGTH
       THEN [ok |-> FALSE, err |-> "The secret key should be 32 bytes", value |-> <<>>]
       ELSE IF ~ciphertext.ok
            THEN [ok |-> FALSE, err |-> "Could not deserialize ciphertext", value |-> <<>>]
            ELSE open_NoTag(secret_key, ciphertext.value.body)

\* decrypt(ciphertext, sk) of the wasm bindings: the body is opened with the
\* session key itself, without a beacon signature
decrypt(ciphertext_bytes, secret_key) ==
    LET ciphertext == deserialize_compressed(ciphertext_bytes)
    IN IF Len(secret_key) # HASH_LENGTH
       THEN [ok |-> FALSE, err |-> "The secret key should be 32 bytes", value |-> <<>>]
       ELSE IF ~ciphertext.ok
            THEN [ok |-> FALSE, err |-> "Could not deserialize ciphertext", value |-> <<>>]
            ELSE LET result == open(secret_key, ciphertext.value.body)
                 IN IF ~result.ok
                    THEN [ok |-> FALSE, err |-> "Message decryption failed", value |-> <<>>]
                    ELSE result

-----------------------------------------------------------------------------
(* The C FFI (timelock-ffi): pointers, C strings, and the handlers as       *)
(* functions of their arguments that return the code, what they do to the   *)
(* thread's last error, and what they leave in the memory they touch.       *)

\* a pointer argument: NULL, or the memory it points to
NULL == [null |-> TRUE]
Ptr(mem) == [null |-> FALSE, mem |-> mem]
is_null(p) == p.null

\* a byte of a C string that is no UTF-8, and the characters used
INVALID_UTF8 == "\\xFF"
HexDigits == {"0", "1"}

\* CStr::to_str
to_str(s) ==
    IF \E i \in 1..Len(s) : s[i] = INVALID_UTF8
    THEN [ok |-> FALSE, err |-> "invalid utf-8 sequence"]
    ELSE [ok |-> TRUE, err |-> "", value |-> s]

hex_digit(c) == IF c = "0" THEN 0 ELSE 1

\* hex::encode: two digits a byte
hex_encode(b) ==
    [i \in 1..(2 * Len(b)) |->
        IF i % 2 = 1 THEN "0" ELSE IF b[i \div 2] = 0 THEN "0" ELSE "1"]

\* hex::decode: an odd length is refused first, then a character that is no
\* digit; a pair of digits is one byte
hex_decode(s) ==
    IF Len(s) % 2 # 0 THEN [ok |-> FALSE, err |-> "Odd number of digits"]
    ELSE IF \E i \in 1..Len(s) : s[i] \notin HexDigits
         THEN [ok |-> FALSE, err |-> "Invalid character"]
         ELSE [ok |-> TRUE, err |-> "",
               value |-> [i \in 1..(Len(s) \div 2) |->
                            ByteBase * hex_digit(s[2 * i - 1]) + hex_digit(s[2 * i])]]

\* bytes of a drand identity (pub static TIMELOCK_IDENTITY_SIZE = 32)
TIMELOCK_IDENTITY_SIZE == HASH_LENGTH

\* LAST_ERROR is None or Some(text). What a handler does to it:
\* set_last_error(text) stores the text, clear_last_error() stores None, and
\* KEEP is a return that calls neither.
None == "None"
KEEP == "KEEP"
set_last_error(message) == message
\* variant: the stored text is left in place
clear_last_error_Keep == KEEP
clear_last_error == None

DECRYPTION_FAILED_MESSAGE ==
    "Timelock decryption failed: signature may be invalid, round may be in the future, or ciphertext may be corrupted"

\* variant: the round number is hashed in little-endian byte order
timelock_create_drand_identity_LittleEndian(round_number, identity_out, identity_len) ==
    IF is_null(identity_out) \/ identity_len < TIMELOCK_IDENTITY_SIZE
    THEN [code |-> "InvalidInput",
          error |-> set_last_error("Invalid identity buffer: null pointer or insufficient size (need 32 bytes)"),
          identity_out |-> identity_out]
    ELSE LET hash == sha256(to_le_bytes(round_number, U64_SIZE))
         IN [code |-> "Success",
             error |-> clear_last_error,
             identity_out |-> Ptr([i \in 1..identity_len |->
                                     IF i <= TIMELOCK_IDENTITY_SIZE THEN hash[i]
                                     ELSE identity_out.mem[i]])]

\* timelock_create_drand_identity(round_number, identity_out, identity_len);
\* identity_out is NULL or the caller's buffer of identity_len bytes.
\* Returns the code, the effect on the last error and the buffer at return.
timelock_create_drand_identity(round_number, identity_out, identity_len) ==
    IF is_null(identity_out) \/ identity_len < TIMELOCK_IDENTITY_SIZE
    THEN [code |-> "InvalidInput",
          error |-> set_last_error("Invalid identity buffer: null pointer or insufficient size (need 32 bytes)"),
          identity_out |-> identity_out]
    ELSE LET hash == sha256(to_be_bytes(round_number, U64_SIZE))
         IN [code |-> "Success",
             error |-> clear_last_error,
             identity_out |-> Ptr([i \in 1..identity_len |->
                                     IF i <= TIMELOCK_IDENTITY_SIZE THEN hash[i]
                                     ELSE identity_out.mem[i]])]

\* variant: the secret key is left in the buffer
fail_with_zeroize_Skip(secret_key_array, error_message, result_code) ==
    [secret_key_array |-> secret_key_array,
     error |-> set_last_error(error_message),
     code |-> result_code]

fail_with_zeroize(secret_key_array, error_message, result_code) ==
    [secret_key_array |-> Zeros(Len(secret_key_array)),
     error |-> set_last_error(error_message),
     code |-> result_code]

\* variant: the source is wiped once copied
copy_nonoverlapping_Move(src, count) ==
    [src |-> Zeros(Len(src)), dst |-> SubSeq(src, 1, count)]

\* ptr::copy_nonoverlapping(src, dst, count): dst receives count bytes of
\* src, and src, read through a *const pointer, keeps them
copy_nonoverlapping(src, count) ==
    [src |-> src, dst |-> SubSeq(src, 1, count)]

\* timelock_encrypt once its arguments passed the first check: the key is
\* copied, the public key parsed, the message encrypted and the ciphertext
\* serialized and stored. env holds the outcomes the handler does not
\* control: the draws of OsRng and whether serialize_compressed succeeds.
timelock_encrypt_validated(message, identity, identity_len, public_key_hex, secret_key, ciphertext_out, env) ==
    LET copy == copy_nonoverlapping(secret_key.mem, HASH_LENGTH)
        secret_key_array == copy.dst
        failed(path, f) ==
            [code |-> f.code, error |-> f.error, path |-> path, copied |-> TRUE,
             secret_key_array |-> f.secret_key_array,
             secret_key |-> Ptr(copy.src), ciphertext |-> NULL,
             ciphertext_out |-> ciphertext_out]
        public_key_cstr == to_str(public_key_hex.mem)
    IN IF ~public_key_cstr.ok
       THEN failed("utf8", fail_with_zeroize(secret_key_array,
                "Invalid UTF-8 in public key hex string: " \o public_key_cstr.err,
                "InvalidInput"))
       ELSE
       LET public_key_bytes == hex_decode(public_key_cstr.value)
       IN IF ~public_key_bytes.ok
          THEN failed("hex", fail_with_zeroize(secret_key_array,
                   "Invalid hex encoding in public key: " \o public_key_bytes.err,
                   "InvalidPublicKey"))
          ELSE
          LET public_key == deserialize_point(public_key_bytes.value)
          IN IF ~public_key.ok
             THEN failed("point", fail_with_zeroize(secret_key_array,
                      "Failed to deserialize BLS public key: " \o public_key.err,
                      "InvalidPublicKey"))
             ELSE
             LET timelock_identity == Identity_new(<<>>, identity.mem)
                 ciphertext == tle(public_key.value, secret_key_array, message.mem,
                                   timelock_identity, env)
             IN IF ~ciphertext.ok
                THEN failed("tle", fail_with_zeroize(secret_key_array,
                         "Timelock encryption operation failed: " \o ciphertext.err,
                         "EncryptionFailed"))
                ELSE IF ~env.serialize_ok
                     THEN [code |-> "SerializationError",
                           error |-> set_last_error("Failed to serialize ciphertext"),
                           path |-> "serialize", copied |-> TRUE,
                           secret_key_array |-> Zeros(Len(secret_key_array)),
                           secret_key |-> Ptr(copy.src), ciphertext |-> NULL,
                           ciphertext_out |-> ciphertext_out]
                     ELSE LET serialized == serialize_compressed(ciphertext.value)
                          IN [code |-> "Success", error |-> clear_last_error,
                              path |-> "success", copied |-> TRUE,
                              secret_key_array |-> Zeros(Len(secret_key_array)),
                              secret_key |-> Ptr(copy.src),
                              ciphertext |-> Ptr(serialized),
                              ciphertext_out |->
                                Ptr(Ptr([data |-> Ptr(serialized),
                                         len |-> Len(serialized)]))]

\* variant: the public key string is examined before the pointers are
timelock_encrypt_PublicKeyFirst(message, identity, identity_len, public_key_hex, secret_key, ciphertext_out, env) ==
    IF /\ ~is_null(public_key_hex)
       /\ to_str(public_key_hex.mem).ok
       /\ ~hex_decode(to_str(public_key_hex.mem).value).ok
    THEN [code |-> "InvalidPublicKey",
          error |-> set_last_error("Invalid hex encoding in public key: "
                                       \o hex_decode(to_str(public_key_hex.mem).value).err),
          path |-> "hex", copied |-> FALSE, secret_key_array |-> <<>>,
          secret_key |-> secret_key, ciphertext |-> NULL,
          ciphertext_out |-> ciphertext_out]
    ELSE IF \/ is_null(message) \/ is_null(identity) \/ is_null(public_key_hex)
            \/ is_null(secret_key) \/ is_null(ciphertext_out)
            \/ identity_len # TIMELOCK_IDENTITY_SIZE
    THEN [code |-> "InvalidInput",
          error |-> set_last_error("Invalid input parameters: null pointers or incorrect identity length (need 32 bytes)"),
          path |-> "validate", copied |-> FALSE, secret_key_array |-> <<>>,
          secret_key |-> secret_key, ciphertext |-> NULL,
          ciphertext_out |-> ciphertext_out]
    ELSE timelock_encrypt_validated(message, identity, identity_len, public_key_hex,
                                    secret_key, ciphertext_out, env)

\* timelock_encrypt(message, message_len, identity, identity_len,
\* public_key_hex, secret_key, ciphertext_out); message_len is the length of
\* the message memory, ciphertext_out is NULL or the caller's pointer variable.
\* Returns the code, the effect on the last error, whether the local
\* secret_key_array was filled and what it holds at the return, the caller's
\* secret_key memory at the return, the bytes of the ciphertext stored (NULL
\* when nothing is stored), and the caller's pointer variable at the return.
timelock_encrypt(message, identity, identity_len, public_key_hex, secret_key, ciphertext_out, env) ==
    IF \/ is_null(message) \/ is_null(identity) \/ is_null(public_key_hex)
       \/ is_null(secret_key) \/ is_null(ciphertext_out)
       \/ identity_len # TIMELOCK_IDENTITY_SIZE
    THEN [code |-> "InvalidInput",
          error |-> set_last_error("Invalid input parameters: null pointers or incorrect identity length (need 32 bytes)"),
          path |-> "validate", copied |-> FALSE, secret_key_array |-> <<>>,
          secret_key |-> secret_key, ciphertext |-> NULL,
          ciphertext_out |-> ciphertext_out]
    ELSE timelock_encrypt_validated(message, identity, identity_len, public_key_hex,
                                    secret_key, ciphertext_out, env)

\* variant: the failure of tld is reported by its cause
decrypt_failure_ByCause(cause) ==
    [code |-> IF cause = "ibe" THEN "InvalidSignature" ELSE "DecryptionFailed",
     error |-> set_last_error("Timelock decryption failed: " \o cause)]

\* the Err(_) arm of the tld match in timelock_decrypt: one code and one text
\* whatever the error was
decrypt_failure(cause) ==
    [code |-> "DecryptionFailed",
     error |-> set_last_error(DECRYPTION_FAILED_MESSAGE)]

\* variant: the bytes after the copied ones are cleared
copy_from_slice_Fill(output, src) ==
    [i \in 1..Len(output) |-> IF i <= Len(src) THEN src[i] ELSE 0]

\* output[..src.len()].copy_from_slice(&src): the first bytes of output are
\* those of src, the others are left
copy_from_slice(output, src) ==
    [i \in 1..Len(output) |-> IF i <= Len(src) THEN src[i] ELSE output[i]]

\* timelock_decrypt once its pointers passed the null checks: the signature
\* is parsed, the ciphertext deserialized and decrypted, and the plaintext
\* copied out if the buffer holds it
timelock_decrypt_validated(ciphertext, signature_hex, plaintext_out, plaintext_len) ==
    LET fail(code, error) ==
            [code |-> code, error |-> error, cause |-> "",
             plaintext_out |-> plaintext_out, plaintext_len |-> plaintext_len,
             ciphertext |-> ciphertext]
        signature_cstr == to_str(signature_hex.mem)
    IN IF ~signature_cstr.ok
       THEN fail("InvalidInput", set_last_error("Invalid UTF-8 in signature hex string"))
       ELSE
       LET signature_bytes == hex_decode(signature_cstr.value)
       IN IF ~signature_bytes.ok
          THEN fail("InvalidSignature", set_last_error("Invalid hex encoding in signature"))
          ELSE
          LET signature == deserialize_point(signature_bytes.value)
          IN IF ~signature.ok
             THEN fail("InvalidSignature",
                       set_last_error("Failed to deserialize BLS signature: " \o signature.err))
             ELSE
             LET ciphertext_slice == SubSeq(ciphertext.mem.data.mem, 1, ciphertext.mem.len)
                 timelock_ciphertext == deserialize_compressed(ciphertext_slice)
             IN IF ~timelock_ciphertext.ok
                THEN fail("SerializationError",
                          set_last_error("Failed to deserialize ciphertext: "
                                             \o timelock_ciphertext.err))
                ELSE
                LET plaintext_result == tld(timelock_ciphertext.value, signature.value)
                IN IF ~plaintext_result.ok
                   THEN LET f == decrypt_failure(plaintext_result.cause)
                        IN [code |-> f.code, error |-> f.error,
                            cause |-> plaintext_result.cause,
                            plaintext_out |-> plaintext_out,
                            plaintext_len |-> plaintext_len,
                            ciphertext |-> ciphertext]
                   ELSE IF plaintext_len.mem < Len(plaintext_result.value)
                        THEN [code |-> "MemoryError", error |-> KEEP, cause |-> "",
                              plaintext_out |-> plaintext_out,
                              plaintext_len |-> Ptr(Len(plaintext_result.value)),
                              ciphertext |-> ciphertext]
                        ELSE [code |-> "Success", error |-> clear_last_error,
                              cause |-> "",
                              plaintext_out |->
                                Ptr(copy_from_slice(plaintext_out.mem,
                                                    plaintext_result.value)),
                              plaintext_len |-> Ptr(Len(plaintext_result.value)),
                              ciphertext |-> ciphertext]

\* variant: the signature string is parsed before the pointers are examined
timelock_decrypt_SignatureFirst(ciphertext, signature_hex, plaintext_out, plaintext_len) ==
    LET fail(code, error) ==
            [code |-> code, error |-> error, cause |-> "",
             plaintext_out |-> plaintext_out, plaintext_len |-> plaintext_len,
             ciphertext |-> ciphertext]
    IN
    IF /\ ~is_null(signature_hex)
       /\ to_str(signature_hex.mem).ok
       /\ ~hex_decode(to_str(signature_hex.mem).value).ok
    THEN fail("InvalidSignature", set_last_error("Invalid hex encoding in signature"))
    ELSE IF \/ is_null(ciphertext) \/ is_null(signature_hex)
            \/ is_null(plaintext_out) \/ is_null(plaintext_len)
    THEN fail("InvalidInput",
              set_last_error("Invalid input parameters: null pointers not allowed"))
    ELSE IF is_null(ciphertext.mem.data)
    THEN fail("InvalidInput", set_last_error("Invalid ciphertext: null data pointer"))
    ELSE timelock_decrypt_validated(ciphertext, signature_hex, plaintext_out,
                                    plaintext_len)

\* variant: the ciphertext is deserialized before the signature is parsed
timelock_decrypt_CiphertextFirst(ciphertext, signature_hex, plaintext_out, plaintext_len) ==
    LET fail(code, error) ==
            [code |-> code, error |-> error, cause |-> "",
             plaintext_out |-> plaintext_out, plaintext_len |-> plaintext_len,
             ciphertext |-> ciphertext]
    IN
    IF \/ is_null(ciphertext) \/ is_null(signature_hex)
       \/ is_null(plaintext_out) \/ is_null(plaintext_len)
    THEN fail("InvalidInput",
              set_last_error("Invalid input parameters: null pointers not allowed"))
    ELSE IF is_null(ciphertext.mem.data)
    THEN fail("InvalidInput", set_last_error("Invalid ciphertext: null data pointer"))
    ELSE LET timelock_ciphertext ==
                 deserialize_compressed(SubSeq(ciphertext.mem.data.mem, 1,
                                               ciphertext.mem.len))
         IN IF ~timelock_ciphertext.ok
            THEN fail("SerializationError",
                      set_last_error("Failed to deserialize ciphertext: "
                                         \o timelock_ciphertext.err))
            ELSE timelock_decrypt_validated(ciphertext, signature_hex, plaintext_out,
                                            plaintext_len)

\* variant: a successful decryption releases the data buffer of the ciphertext
timelock_decrypt_Consuming(ciphertext, signature_hex, plaintext_out, plaintext_len) ==
    LET fail(code, error) ==
            [code |-> code, error |-> error, cause |-> "",
             plaintext_out |-> plaintext_out, plaintext_len |-> plaintext_len,
             ciphertext |-> ciphertext]
    IN
    IF \/ is_null(ciphertext) \/ is_null(signature_hex)
       \/ is_null(plaintext_out) \/ is_null(plaintext_len)
    THEN fail("InvalidInput",
              set_last_error("Invalid input parameters: null pointers not allowed"))
    ELSE IF is_null(ciphertext.mem.data)
    THEN fail("InvalidInput", set_last_error("Invalid ciphertext: null data pointer"))
    ELSE LET r == timelock_decrypt_validated(ciphertext, signature_hex, plaintext_out,
                                             plaintext_len)
         IN IF r.code = "Success"
            THEN [r EXCEPT !.ciphertext = Ptr([data |-> NULL, len |-> 0])]
            ELSE r

\* timelock_decrypt(ciphertext, signature_hex, plaintext_out, plaintext_len).
\* ciphertext is NULL or the struct [data, len], data NULL or the bytes;
\* plaintext_out is NULL or the caller's buffer, plaintext_len NULL or the
\* caller's usize. Returns the code, the effect on the last error, the two
\* outputs and the ciphertext behind its pointer at the return, and the step
\* of tld that failed.
timelock_decrypt(ciphertext, signature_hex, plaintext_out, plaintext_len) ==
    LET fail(code, error) ==
            [code |-> code, error |-> error, cause |-> "",
             plaintext_out |-> plaintext_out, plaintext_len |-> plaintext_len,
             ciphertext |-> ciphertext]
    IN
    IF \/ is_null(ciphertext) \/ is_null(signature_hex)
       \/ is_null(plaintext_out) \/ is_null(plaintext_len)
    THEN fail("InvalidInput",
              set_last_error("Invalid input parameters: null pointers not allowed"))
    ELSE IF is_null(ciphertext.mem.data)
    THEN fail("InvalidInput", set_last_error("Invalid ciphertext: null data pointer"))
    ELSE timelock_decrypt_validated(ciphertext, signature_hex, plaintext_out,
                                    plaintext_len)

\* timelock_ciphertext_free(ciphertext): frees the allocation unless NULL;
\* the last error is not touched
\* variant: the struct and its data are never released
timelock_ciphertext_free_Leak(ciphertext) ==
    [freed |-> FALSE, error |-> KEEP]

timelock_ciphertext_free(ciphertext) ==
    [freed |-> ~is_null(ciphertext), error |-> KEEP]

\* usize of the build: UsizeBits bits (64 in the source)
USIZE_MAX == Pow(2, UsizeBits) - 1

\* variant: the sum wraps around
checked_add_Wrapping(a, b) ==
    [some |-> TRUE, value |-> (a + b) % (USIZE_MAX + 1)]

\* usize::checked_add: None when the sum does not fit
checked_add(a, b) ==
    IF a + b > USIZE_MAX THEN [some |-> FALSE]
    ELSE [some |-> TRUE, value |-> a + b]

\* sizes in bytes of the real encodings, used where the source does arithmetic
\* on them (the byte strings of the model are shorter: POINT_SIZE, NONCE_SIZE,
\* TAG_SIZE above)
BLS_G1_SIZE == 48
BLS_G2_SIZE == 96
AES_GCM_IV_SIZE == 12
AES_GCM_TAG_SIZE == 16
SERIALIZATION_OVERHEAD == 32
TIMELOCK_CIPHERTEXT_OVERHEAD ==
    BLS_G1_SIZE + BLS_G2_SIZE + AES_GCM_IV_SIZE + AES_GCM_TAG_SIZE
        + SERIALIZATION_OVERHEAD

\* compressed_size() of the identity of G1 and of G2 in the curve library
G1_COMPRESSED_SIZE == 48
G2_COMPRESSED_SIZE == 96

\* validate_cryptographic_constants()
validate_cryptographic_constants ==
    IF G1_COMPRESSED_SIZE # BLS_G1_SIZE
    THEN [ok |-> FALSE, err |-> "BLS_G1_SIZE constant does not match library size"]
    ELSE IF G2_COMPRESSED_SIZE # BLS_G2_SIZE
         THEN [ok |-> FALSE, err |-> "BLS_G2_SIZE constant does not match library size"]
         ELSE [ok |-> TRUE, err |-> ""]

\* timelock_init()
timelock_init ==
    LET validated == validate_cryptographic_constants
    IN IF ~validated.ok
       THEN [code |-> "InvalidInput",
             error |-> set_last_error("Cryptographic constant validation failed: "
                                          \o validated.err)]
       ELSE [code |-> "Success", error |-> clear_last_error]

\* timelock_cleanup()
\* variant: the last error is left as it is
timelock_cleanup_NoClear == [error |-> KEEP]

timelock_cleanup == [error |-> clear_last_error]

\* timelock_get_last_error() on a thread whose LAST_ERROR is e: the text, or
\* null when there is none; LAST_ERROR is left as it is
timelock_get_last_error(e) ==
    IF e = None THEN NULL ELSE Ptr(e)

\* timelock_estimate_ciphertext_size(message_len, estimated_size_out);
\* estimated_size_out is NULL or the caller's usize. Returns the code, the
\* effect on the last error and the caller's usize at the return.
timelock_estimate_ciphertext_size(message_len, estimated_size_out) ==
    IF is_null(estimated_size_out)
    THEN [code |-> "InvalidInput",
          error |-> set_last_error("Null output pointer for estimated size"),
          estimated_size_out |-> estimated_size_out]
    ELSE LET overhead == TIMELOCK_CIPHERTEXT_OVERHEAD
             total == checked_add(message_len, overhead)
         IN IF total.some
            THEN [code |-> "Success", error |-> clear_last_error,
                  estimated_size_out |-> Ptr(total.value)]
            ELSE [code |-> "InvalidInput",
                  error |-> set_last_error("Integer overflow when estimating ciphertext size"),
                  estimated_size_out |-> estimated_size_out]

\* length in bytes of the serialized TLECiphertext of an n-byte message:
\* U, V, W, nonce, body length, body, tag, cipher-suite length, cipher suite
FIELD_ELEMENT_SIZE == 32
CIPHER_SUITE_LEN == 11
serialized_size(n) ==
    BLS_G2_SIZE + FIELD_ELEMENT_SIZE + FIELD_ELEMENT_SIZE + AES_GCM_IV_SIZE
        + U64_SIZE + n + AES_GCM_TAG_SIZE + U64_SIZE + CIPHER_SUITE_LEN

-----------------------------------------------------------------------------
(* Input sets and the idle values of the variables a specification leaves   *)
(* alone                                                                    *)

Contexts == {<<>>, <<1>>}
IdBytes == BytesUpTo(MaxIdLen)
Blocks == BytesOfLen(HASH_LENGTH)
MasterSecrets == 1..MaxMsk
Messages == BytesUpTo(MaxMsgLen)
Nonces == BytesOfLen(NONCE_SIZE)
Rounds == 0..MaxRound

\* the identity a caller derives for a drand round
DrandIdentity(round) == sha256(to_be_bytes(round, U64_SIZE))
DrandIdentities == {DrandIdentity(round) : round \in Rounds}

Threads == {"t1", "t2"}
Handles == {"h1"}

NoIbe == [pc |-> "idle"]
NoDec == [called |-> FALSE]
NoTlock == [pc |-> "idle"]
NoErrors == [t \in Threads |-> None]
EmptyHeap == [h \in Handles |-> [live |-> FALSE]]

IbeIdle == ibe = NoIbe /\ dec = NoDec
TlockIdle == tl = NoTlock /\ tlres = NoDec
NoCall == [op |-> "none", thread |-> CHOOSE t \in Threads : TRUE]
FfiIdle == last_error = NoErrors /\ heap = EmptyHeap /\ call = NoCall /\ seen = {}

-----------------------------------------------------------------------------
(* The IBE state machine: inputs drawn at Init, then encrypt, then decrypt *)

IbeInit ==
    /\ target_endian \in {"little", "big"}
    /\ ibe \in [pc : {"input"}, ctx : Contexts, id_bytes : IdBytes,
                msk : MasterSecrets, message : Blocks]
    /\ dec = NoDec
    /\ TlockIdle
    /\ FfiIdle

\* Identity::new(ctx, id_bytes).encrypt(&Input::new(message), p_pub = P * msk, rng)
IbeEncrypt ==
    /\ ibe.pc = "input"
    /\ \E sigma \in Blocks :
         LET identity == Identity_new(ibe.ctx, ibe.id_bytes)
             p_pub == Mul(generator_pk, ibe.msk)
         IN \E out \in {Identity_encrypt(identity, ibe.message, p_pub, sigma)} :
            ibe' = [pc |-> "encrypted", ctx |-> ibe.ctx, id_bytes |-> ibe.id_bytes,
                    msk |-> ibe.msk, message |-> ibe.message,
                    identity |-> identity, p_pub |-> p_pub, drawn |-> sigma,
                    ct |-> out.ct, sigma |-> out.sigma, r |-> out.r, g_id |-> out.g_id]
    /\ UNCHANGED <<target_endian, dec, tlockVars, ffiVars>>

\* IBESecret(secret).decrypt(&ct) of the ciphertext as encrypted, under any
\* signature-group point
IbeDecrypt ==
    /\ ibe.pc = "encrypted"
    /\ ~dec.called
    /\ \E secret \in SignatureGroup :
         dec' = [called |-> TRUE, secret |-> secret, ct |-> ibe.ct,
                 out |-> IBESecret_decrypt(secret, ibe.ct)]
    /\ UNCHANGED <<target_endian, ibe, tlockVars, ffiVars>>

\* every ciphertext that differs from ct in one bit of V or W, or in U
FlipBit(s, i) == [s EXCEPT ![i] = 1 - s[i]]
TamperedU(ct) == {[ct EXCEPT !.u = u2] : u2 \in PublicKeyGroup \ {ct.u}}
TamperedV(ct) == {[ct EXCEPT !.v = FlipBit(ct.v, i)] : i \in 1..HASH_LENGTH}
TamperedW(ct) == {[ct EXCEPT !.w = FlipBit(ct.w, i)] : i \in 1..HASH_LENGTH}
Tampered(ct) == TamperedU(ct) \cup TamperedV(ct) \cup TamperedW(ct)

\* the ciphertext of the test fullident_decryption_fails_with_bad_ciphertext
FixedTriple == [u |-> generator_pk, v |-> Zeros(HASH_LENGTH), w |-> Zeros(HASH_LENGTH)]

\* the extracted secret decrypts a ciphertext changed after encryption
IbeDecryptTampered ==
    /\ ibe.pc = "encrypted"
    /\ ~dec.called
    /\ \E ct2 \in Tampered(ibe.ct) \cup {FixedTriple} :
         LET secret == Identity_extract(ibe.identity, ibe.msk)
         IN dec' = [called |-> TRUE, secret |-> secret, ct |-> ct2,
                    out |-> IBESecret_decrypt(secret, ct2)]
    /\ UNCHANGED <<target_endian, ibe, tlockVars, ffiVars>>

IbeNext == IbeEncrypt \/ IbeDecrypt \/ IbeDecryptTampered

SpecIbe == IbeInit /\ [][IbeNext]_vars

-----------------------------------------------------------------------------
(* The timelock state machine, through the wasm bindings: tle to the        *)
(* identity of a drand round, then tld under a signature or decrypt under a *)
(* 32-byte key; the build is little-endian                                  *)

\* variant: the message and the identity bytes change places
js_tle_SwappedArguments(id_bytes, message_bytes, msk_bytes, pp, rng) ==
    IF Len(msk_bytes) # HASH_LENGTH
    THEN [ok |-> FALSE, err |-> "could not decode secret key"]
    ELSE LET identity == Identity_new(<<>>, message_bytes)
             ciphertext == tle(pp, msk_bytes, id_bytes, identity, rng)
         IN IF ~ciphertext.ok
            THEN [ok |-> FALSE, err |-> "encryption failed"]
            ELSE [ok |-> TRUE, err |-> "",
                  value |-> serialize_compressed(ciphertext.value)]

\* tle(id_js, message_js, sk_js, p_pub_js) of the wasm bindings; pp is the
\* second key of the DoublePublicKey
js_tle(id_bytes, message_bytes, msk_bytes, pp, rng) ==
    IF Len(msk_bytes) # HASH_LENGTH
    THEN [ok |-> FALSE, err |-> "could not decode secret key"]
    ELSE LET identity == Identity_new(<<>>, id_bytes)
             ciphertext == tle(pp, msk_bytes, message_bytes, identity, rng)
         IN IF ~ciphertext.ok
            THEN [ok |-> FALSE, err |-> "encryption failed"]
            ELSE [ok |-> TRUE, err |-> "",
                  value |-> serialize_compressed(ciphertext.value)]

\* tld(ciphertext_js, sig_vec_js) of the wasm bindings
js_tld(ciphertext_bytes, sig_bytes) ==
    LET sig_point == deserialize_point(sig_bytes)
    IN IF ~sig_point.ok
       THEN [ok |-> FALSE, err |-> "could not deserialize sig_vec", value |-> <<>>]
       ELSE LET ciphertext == deserialize_compressed(ciphertext_bytes)
            IN IF ~ciphertext.ok
               THEN [ok |-> FALSE, err |-> "Could not deserialize ciphertext",
                     value |-> <<>>]
               ELSE LET result == tld(ciphertext.value, sig_point.value)
                    IN IF ~result.ok
                       THEN [ok |-> FALSE, err |-> "decryption has failed " \o result.err,
                             value |-> <<>>]
                       ELSE [ok |-> TRUE, err |-> "", value |-> result.value]

TlockInit ==
    /\ target_endian = "little"
    /\ tl \in [pc : {"input"}, id : DrandIdentities, message : Messages,
               msk : MasterSecrets, sk : Blocks]
    /\ tlres = NoDec
    /\ IbeIdle
    /\ FfiIdle

\* tle(id, message, sk, p_pub = msk * P); the rng may be exhausted
TlockEncrypt ==
    /\ tl.pc = "input"
    /\ \E rng \in [ok : BOOLEAN, sigma : Blocks, nonce : Nonces] :
         \E out \in {js_tle(tl.id, tl.message, tl.sk, Mul(generator_pk, tl.msk), rng)} :
            tl' = [pc |-> IF out.ok THEN "encrypted" ELSE "failed",
                   id |-> tl.id, message |-> tl.message, msk |-> tl.msk,
                   sk |-> tl.sk,
                   ct |-> IF out.ok THEN out.value ELSE <<>>,
                   err |-> out.err]
    /\ UNCHANGED <<target_endian, tlres, ibeVars, ffiVars>>

\* tld(ct, sig) under any signature-group point
TlockDecrypt ==
    /\ tl.pc = "encrypted"
    /\ ~tlres.called
    /\ \E signature \in SignatureGroup :
         tlres' = [called |-> TRUE, op |-> "tld", signature |-> signature,
                   key |-> <<>>,
                   out |-> js_tld(tl.ct, serialize_point(signature))]
    /\ UNCHANGED <<target_endian, tl, ibeVars, ffiVars>>

\* decrypt(ct, sk) under any 32-byte key
TlockEarlyDecrypt ==
    /\ tl.pc = "encrypted"
    /\ ~tlres.called
    /\ \E key \in Blocks :
         tlres' = [called |-> TRUE, op |-> "decrypt", signature |-> 0,
                   key |-> key, out |-> decrypt(tl.ct, key)]
    /\ UNCHANGED <<target_endian, tl, ibeVars, ffiVars>>

TlockNext == TlockEncrypt \/ TlockDecrypt \/ TlockEarlyDecrypt

SpecTlock == TlockInit /\ [][TlockNext]_vars

-----------------------------------------------------------------------------
(* The FFI state machine: the calls of one caller thread, one step a call.  *)
(* A handler touches its arguments and the calling thread's LAST_ERROR      *)
(* only. The thread is chosen at Init; the build is little-endian.          *)

\* arguments the caller passes
FfiMessages == {<<>>, <<0, 1>>}
FfiKeys == {Ones(HASH_LENGTH), [i \in 1..HASH_LENGTH |-> i % 2]}
FfiIdentityLens == {HASH_LENGTH - 1, HASH_LENGTH, HASH_LENGTH + 1}
FfiCapacities == {0, 1, 2, 3}
ValidPublicKeyHex ==
    {hex_encode(serialize_point(Mul(generator_pk, msk))) : msk \in MasterSecrets}
SignatureHex == {hex_encode(serialize_point(p)) : p \in SignatureGroup}
FirstPublicKeyHex == hex_encode(serialize_point(Mul(generator_pk, 1)))
\* a string that is no hex, and the hex of bytes that are no point
NoHex == <<"g", "0">>
NoPointHex == hex_encode(Ones(POINT_SIZE))
\* no UTF-8; no hex digit; odd length; no point; too short for a point
BadHex == {<<INVALID_UTF8>>, NoHex, <<"0">>, NoPointHex, <<"0", "1">>}
EncryptFaults == {"none", "null_message", "null_identity", "null_public_key_hex",
                  "null_secret_key", "null_ciphertext_out", "rng", "serialize"}
DecryptFaults == {"none", "null_ciphertext", "null_data", "null_signature_hex",
                  "null_plaintext_out", "null_plaintext_len"}
\* what the caller's pointer variable holds before timelock_encrypt: a struct
\* left from an earlier use
STALE == Ptr([data |-> NULL, len |-> 0])
\* message lengths given to timelock_estimate_ciphertext_size: small ones and
\* those around the largest whose sum with the overhead fits a usize
EstimateLens ==
    {0, 1, MaxMsgLen, USIZE_MAX}
        \cup {USIZE_MAX - TIMELOCK_CIPHERTEXT_OVERHEAD + d : d \in {-1, 0, 1}}

\* the effect of a handler on the LAST_ERROR of thread t
\* variant: LAST_ERROR is one static of the process, not a thread_local
WithError_Shared(t, error) ==
    IF error = KEEP THEN last_error ELSE [u \in Threads |-> error]

WithError(t, error) ==
    IF error = KEEP THEN last_error ELSE [last_error EXCEPT ![t] = error]

FfiInit ==
    /\ target_endian = "little"
    /\ last_error = NoErrors
    /\ heap = EmptyHeap
    /\ call \in {[op |-> "none", thread |-> t] : t \in Threads}
    /\ seen = {}
    /\ IbeIdle
    /\ TlockIdle

\* the arguments of a call of timelock_create_drand_identity: every round with
\* a buffer of 32 bytes, and one round with every buffer
CreateInputs ==
    [round_number : Rounds, identity_len : {HASH_LENGTH}, null : {FALSE}]
      \cup [round_number : {MaxRound}, identity_len : FfiIdentityLens \cup {0},
            null : BOOLEAN]

CreateDrandIdentity(t) ==
    /\ \E in \in CreateInputs :
         LET round_number == in.round_number
             identity_len == in.identity_len
             identity_out == IF in.null THEN NULL ELSE Ptr(Ones(identity_len))
         IN \E r \in {timelock_create_drand_identity(round_number, identity_out,
                                                       identity_len)} :
            /\ last_error' = WithError(t, r.error)
            /\ call' = [op |-> "create_drand_identity", thread |-> t,
                        code |-> r.code, error |-> r.error,
                        had_error |-> last_error[t] # None,
                        round_number |-> round_number,
                        identity_len |-> identity_len,
                        before |-> identity_out, after |-> r.identity_out]
    /\ UNCHANGED <<target_endian, heap, seen, ibeVars, tlockVars>>

\* the arguments of a call of timelock_encrypt: well-formed; with one of them
\* at fault; with a refused public key string; with another identity_len; and
\* with a refused public key string together with a null pointer or another
\* identity_len
EncryptInputs ==
    [m : FfiMessages, identity_len : {HASH_LENGTH}, hex : ValidPublicKeyHex,
     key : {Ones(HASH_LENGTH)}, fault : {"none"}]
      \cup [m : {<<>>}, identity_len : {HASH_LENGTH}, hex : {FirstPublicKeyHex},
            key : FfiKeys, fault : EncryptFaults]
      \cup [m : {<<>>}, identity_len : {HASH_LENGTH}, hex : BadHex,
            key : {Ones(HASH_LENGTH)}, fault : {"none"}]
      \cup [m : {<<>>}, identity_len : FfiIdentityLens, hex : {FirstPublicKeyHex},
            key : {Ones(HASH_LENGTH)}, fault : {"none"}]
      \cup [m : {<<>>}, identity_len : FfiIdentityLens, hex : {NoHex, NoPointHex},
            key : {Ones(HASH_LENGTH)},
            fault : {"none", "null_message", "null_ciphertext_out"}]

Encrypt(t) ==
    /\ \E h \in Handles :
         /\ ~heap[h].live
         /\ \E in \in EncryptInputs :
              LET id_bytes == [i \in 1..in.identity_len |->
                                 IF i <= HASH_LENGTH
                                 THEN DrandIdentity(MaxRound)[i] ELSE 0]
                  arg(name, mem) == IF in.fault = name THEN NULL ELSE Ptr(mem)
                  env == [ok |-> in.fault # "rng", sigma |-> Ones(HASH_LENGTH),
                          nonce |-> Ones(NONCE_SIZE),
                          serialize_ok |-> in.fault # "serialize"]
                  message == arg("null_message", in.m)
                  identity == arg("null_identity", id_bytes)
                  public_key_hex == arg("null_public_key_hex", in.hex)
                  secret_key == arg("null_secret_key", in.key)
                  ciphertext_out == arg("null_ciphertext_out", STALE)
              IN \E r \in {timelock_encrypt(message, identity, in.identity_len,
                                            public_key_hex, secret_key,
                                            ciphertext_out, env)} :
                 /\ last_error' = WithError(t, r.error)
                 /\ heap' = IF is_null(r.ciphertext) THEN heap
                            ELSE [heap EXCEPT ![h] =
                                    [live |-> TRUE, data |-> r.ciphertext.mem,
                                     message |-> in.m, identity |-> id_bytes,
                                     public_key |->
                                       deserialize_point(hex_decode(in.hex).value).value]]
                 /\ call' = [op |-> "encrypt", thread |-> t, code |-> r.code,
                             error |-> r.error,
                             had_error |-> last_error[t] # None,
                             path |-> r.path, copied |-> r.copied,
                             secret_key_array |-> r.secret_key_array,
                             secret_key_before |-> secret_key,
                             secret_key_after |-> r.secret_key,
                             stored |-> ~is_null(r.ciphertext),
                             message |-> message, identity |-> identity,
                             identity_len |-> in.identity_len,
                             public_key_hex |-> public_key_hex,
                             ciphertext_out_before |-> ciphertext_out,
                             ciphertext_out_after |-> r.ciphertext_out,
                             allocated |-> heap' # heap]
    /\ UNCHANGED <<target_endian, seen, ibeVars, tlockVars>>

\* the signature of the round the ciphertext of the allocation was made for
HonestSignatureHex(c) ==
    hex_encode(serialize_point(
        Identity_extract(Identity_new(<<>>, c.identity), c.public_key)))

\* the bytes of an allocation, the bytes with one bit flipped, and the bytes
\* with the last one cut off
DataVariants(data) ==
    {data, SubSeq(data, 1, Len(data) - 1)}
        \cup {FlipBit(data, i) : i \in 1..Len(data)}

\* the arguments of a call of timelock_decrypt on an allocation: the
\* ciphertext as allocated under any signature string, capacity or fault, or
\* changed, under the signature of its round; and a refused signature string
\* together with a null pointer
DecryptInputs(c) ==
    LET honest == HonestSignatureHex(c)
        fits == Len(c.message)
    IN [data : DataVariants(c.data), hex : {honest}, capacity : {fits},
        fault : {"none"}]
         \cup [data : {c.data}, hex : SignatureHex \cup BadHex, capacity : {fits},
               fault : {"none"}]
         \cup [data : {c.data}, hex : {honest}, capacity : FfiCapacities,
               fault : {"none"}]
         \cup [data : {c.data}, hex : {honest}, capacity : {fits},
               fault : DecryptFaults]
         \cup [data : {c.data}, hex : {NoHex, NoPointHex}, capacity : {fits},
               fault : DecryptFaults]

Decrypt(t) ==
    /\ \E h \in Handles :
         /\ heap[h].live
         /\ \E in \in DecryptInputs(heap[h]) :
              LET arg(name, mem) == IF in.fault = name THEN NULL ELSE Ptr(mem)
                  ciphertext == arg("null_ciphertext",
                                    [data |-> arg("null_data", in.data),
                                     len |-> Len(in.data)])
                  signature_hex == arg("null_signature_hex", in.hex)
                  plaintext_out == arg("null_plaintext_out", Ones(in.capacity))
                  plaintext_len == arg("null_plaintext_len", in.capacity)
              IN \E r \in {timelock_decrypt(ciphertext, signature_hex,
                                            plaintext_out, plaintext_len)} :
                 LET unchanged == /\ r.plaintext_out = plaintext_out
                                  /\ r.plaintext_len = plaintext_len
                 IN
                 /\ last_error' = WithError(t, r.error)
                 /\ call' = [op |-> "decrypt", thread |-> t, code |-> r.code,
                             error |-> r.error,
                             had_error |-> last_error[t] # None,
                             cause |-> r.cause, handle |-> h,
                             ciphertext_null |-> is_null(ciphertext),
                             data_null |-> /\ ~is_null(ciphertext)
                                           /\ is_null(ciphertext.mem.data),
                             untampered |-> in.data = heap[h].data,
                             signature_hex |-> signature_hex,
                             retry |-> /\ call.op = "decrypt"
                                       /\ call.code = "MemoryError"
                                       /\ call.handle = h
                                       /\ call.untampered
                                       /\ in.data = heap[h].data
                                       /\ call.signature_hex = signature_hex,
                             plaintext_out_before |-> plaintext_out,
                             plaintext_len_before |-> plaintext_len,
                             plaintext_out |-> r.plaintext_out,
                             plaintext_len |-> r.plaintext_len]
                 /\ seen' = IF r.cause = "" THEN seen
                            ELSE seen \cup {[cause |-> r.cause, code |-> r.code,
                                             error |-> last_error'[t],
                                             unchanged |-> unchanged]}
    /\ UNCHANGED <<target_endian, heap, ibeVars, tlockVars>>

\* timelock_ciphertext_free(ciphertext) on an allocation, or on NULL
CiphertextFree(t) ==
    /\ \E h \in Handles, null \in BOOLEAN :
         /\ null \/ heap[h].live
         /\ \E r \in {timelock_ciphertext_free(IF null THEN NULL ELSE Ptr(h))} :
               /\ heap' = IF r.freed THEN [heap EXCEPT ![h] = [live |-> FALSE]] ELSE heap
               /\ last_error' = WithError(t, r.error)
               /\ call' = [op |-> "free", thread |-> t, null |-> null,
                           had_error |-> last_error[t] # None,
                           kept |-> heap' = heap /\ last_error' = last_error]
    /\ UNCHANGED <<target_endian, seen, ibeVars, tlockVars>>

\* timelock_init()
LibraryInit(t) ==
    /\ \E r \in {timelock_init} :
         /\ last_error' = WithError(t, r.error)
         /\ call' = [op |-> "init", thread |-> t, code |-> r.code,
                     error |-> r.error, had_error |-> last_error[t] # None]
    /\ UNCHANGED <<target_endian, heap, seen, ibeVars, tlockVars>>

\* timelock_cleanup()
Cleanup(t) ==
    /\ \E r \in {timelock_cleanup} :
         /\ last_error' = WithError(t, r.error)
         /\ call' = [op |-> "cleanup", thread |-> t,
                     had_error |-> last_error[t] # None]
    /\ UNCHANGED <<target_endian, heap, seen, ibeVars, tlockVars>>

\* timelock_estimate_ciphertext_size(message_len, estimated_size_out), the
\* caller's usize holding 0 before the call
EstimateCiphertextSize(t) ==
    /\ \E message_len \in EstimateLens, null \in BOOLEAN :
         LET estimated_size_out == IF null THEN NULL ELSE Ptr(0)
         IN \E r \in {timelock_estimate_ciphertext_size(message_len,
                                                          estimated_size_out)} :
            /\ last_error' = WithError(t, r.error)
            /\ call' = [op |-> "estimate", thread |-> t, code |-> r.code,
                        error |-> r.error, had_error |-> last_error[t] # None,
                        message_len |-> message_len,
                        before |-> estimated_size_out,
                        after |-> r.estimated_size_out]
    /\ UNCHANGED <<target_endian, heap, seen, ibeVars, tlockVars>>

\* timelock_get_last_error()
GetLastError(t) ==
    /\ call' = [op |-> "get_last_error", thread |-> t,
                had_error |-> last_error[t] # None,
                result |-> timelock_get_last_error(last_error[t])]
    /\ UNCHANGED <<target_endian, last_error, heap, seen, ibeVars, tlockVars>>

Next ==
    \E t \in Threads :
        /\ t = call.thread
        /\ \/ LibraryInit(t)
           \/ Cleanup(t)
           \/ CreateDrandIdentity(t)
           \/ EstimateCiphertextSize(t)
           \/ Encrypt(t)
           \/ Decrypt(t)
           \/ CiphertextFree(t)
           \/ GetLastError(t)

Spec == FfiInit /\ [][Next]_vars

-----------------------------------------------------------------------------
(* Reference definitions used by the properties *)

\* byte-wise XOR of two strings of equal length
XorBytes(a, b) == [i \in 1..Len(a) |-> (a[i] + b[i]) % 2]

\* the secret the identity of the encryption extracts under msk
HonestSecret == Identity_extract(ibe.identity, ibe.msk)

\* sigma' and m' as the scheme defines them for a ciphertext and a secret
SigmaOf(ct, secret) == XorBytes(ct.v, h2(pairing(ct.u, secret)))
MessageOf(ct, secret) == XorBytes(ct.w, h4(SigmaOf(ct, secret)))

-----------------------------------------------------------------------------
(* C2: IBE round trip. Decrypting the ciphertext of Identity::encrypt(m,    *)
(* p_pub = msk*P, sigma) under extract(id, msk) returns Ok(m), for every m, *)
(* identity, msk and sigma, and the pairing value of encrypt,               *)
(* e(r*p_pub, Q_id), equals the pairing value of decrypt, e(U, msk*Q_id).   *)
C2_IbeRoundTrip ==
    (dec.called /\ dec.ct = ibe.ct /\ dec.secret = HonestSecret)
        => /\ dec.out.ok
           /\ dec.out.value = ibe.message
           /\ dec.out.g = ibe.g_id
           /\ pairing(Mul(ibe.p_pub, ibe.r), Identity_public(ibe.identity))
                = pairing(ibe.ct.u, Mul(Identity_public(ibe.identity), ibe.msk))

\* a round trip of a non-zero message with a non-zero sigma and r
C2_Witness ==
    /\ dec.called /\ dec.ct = ibe.ct /\ dec.secret = HonestSecret
    /\ dec.out.ok /\ dec.out.value = ibe.message
    /\ ibe.message # Zeros(HASH_LENGTH) /\ ibe.drawn # Zeros(HASH_LENGTH)
    /\ ibe.r # 0 /\ ibe.msk > 1 /\ Identity_public(ibe.identity) # 0

-----------------------------------------------------------------------------
(* C3 as claimed: for identities whose (ctx, id_bytes) differ, and for any  *)
(* signature-group point other than msk*Q_id, decrypting the ciphertext     *)
(* encrypted to id fails with DecryptionFailed and returns no plaintext.    *)
C3_WrongSignatureAlwaysFails ==
    (/\ dec.called /\ dec.ct = ibe.ct
     /\ \/ dec.secret # HonestSecret
        \/ \E c \in Contexts, i \in IdBytes :
              /\ <<c, i>> # <<ibe.ctx, ibe.id_bytes>>
              /\ dec.secret = Identity_extract(Identity_new(c, i), ibe.msk))
        => ~dec.out.ok /\ dec.out.err = "DecryptionFailed" /\ dec.out.value = <<>>

(* C3 as amended: under a secret d' the decryption of the ciphertext        *)
(* encrypted to id (1) succeeds with the message whenever the mask          *)
(* H2(e(U,d')) equals the mask of msk*Q_id, in particular for every         *)
(* identity with the same concatenation ctx || id_bytes, whose Q_id is the  *)
(* same; (2) otherwise returns Ok only on an H3 collision, the recovered    *)
(* (sigma', m') differing from (sigma, m) and hashing to the same r; (3)    *)
(* in every other case fails with DecryptionFailed and no plaintext.        *)
C3_WrongSignature ==
    (dec.called /\ dec.ct = ibe.ct) =>
        LET sameMask == h2(pairing(ibe.ct.u, dec.secret))
                          = h2(pairing(ibe.ct.u, HonestSecret))
            s2 == SigmaOf(ibe.ct, dec.secret)
            m2 == MessageOf(ibe.ct, dec.secret)
            collision == /\ <<s2, m2>> # <<ibe.drawn, ibe.message>>
                         /\ h3(s2, m2) = h3(ibe.drawn, ibe.message)
        IN /\ sameMask => dec.out.ok /\ dec.out.value = ibe.message
           /\ (~sameMask /\ dec.out.ok) => collision
           /\ ~dec.out.ok => dec.out.err = "DecryptionFailed" /\ dec.out.value = <<>>
           /\ \A c \in Contexts, i \in IdBytes :
                (/\ c \o i = ibe.ctx \o ibe.id_bytes
                 /\ dec.secret = Identity_extract(Identity_new(c, i), ibe.msk))
                    => dec.out.ok /\ dec.out.value = ibe.message

\* the secret of an identity with other (ctx, id_bytes) and the same
\* concatenation decrypts; and a wrong secret is rejected
C3_Witness ==
    /\ dec.called /\ dec.ct = ibe.ct /\ dec.out.ok
    /\ ibe.msk # 0 /\ ibe.r # 0 /\ Identity_public(ibe.identity) # 0
    /\ \E c \in Contexts, i \in IdBytes :
         /\ <<c, i>> # <<ibe.ctx, ibe.id_bytes>>
         /\ c \o i = ibe.ctx \o ibe.id_bytes
         /\ Identity_new(c, i) # ibe.identity
         /\ dec.secret = Identity_extract(Identity_new(c, i), ibe.msk)

-----------------------------------------------------------------------------
-----------------------------------------------------------------------------
(* C9: the ephemeral sigma and r of Identity::encrypt are zero when encrypt *)
(* returns, and the recovered sigma' and m' of IBESecret::decrypt are zero  *)
(* when decrypt returns DecryptionFailed.                                   *)
C9_EphemeralsZeroized ==
    /\ ibe.pc = "encrypted" => ibe.sigma = Zeros(HASH_LENGTH) /\ ibe.r = 0
    /\ (dec.called /\ ~dec.out.ok)
          => dec.out.sigma = Zeros(HASH_LENGTH) /\ dec.out.m = Zeros(HASH_LENGTH)

-----------------------------------------------------------------------------
(* C1: timelock round trip. For every message (the empty one included),     *)
(* every round identity, every master secret msk and every 32-byte session  *)
(* key, tld of the ciphertext tle made for the identity under the public    *)
(* key msk*P, given the signature extract(id, msk), returns exactly the     *)
(* message.                                                                 *)
C1_TimelockRoundTrip ==
    (/\ tlres.called /\ tlres.op = "tld"
     /\ tlres.signature = Identity_extract(Identity_new(<<>>, tl.id), tl.msk))
        => tlres.out.ok /\ tlres.out.value = tl.message

\* a round trip of a message of the greatest length under a non-zero key
C1_Witness ==
    /\ tlres.called /\ tlres.op = "tld"
    /\ tlres.signature = Identity_extract(Identity_new(<<>>, tl.id), tl.msk)
    /\ tlres.signature # 0
    /\ tlres.out.ok /\ tlres.out.value = tl.message
    /\ Len(tl.message) = MaxMsgLen /\ tl.message # Zeros(MaxMsgLen)
    /\ tl.sk # Zeros(HASH_LENGTH)

-----------------------------------------------------------------------------
-----------------------------------------------------------------------------
(* C5: decryption failures are indistinguishable. A timelock_decrypt call   *)
(* whose inputs pass parsing and whose decryption fails returns             *)
(* DecryptionFailed, leaves one fixed text as the last error and leaves     *)
(* both outputs as they were, whether the IBE check or the AES-GCM tag      *)
(* failed; so any two such calls are observed alike.                        *)
C5_DecryptFailuresIndistinguishable ==
    /\ (call.op = "decrypt" /\ call.cause # "") =>
          /\ call.code = "DecryptionFailed"
          /\ last_error[call.thread] = DECRYPTION_FAILED_MESSAGE
          /\ call.plaintext_out = call.plaintext_out_before
          /\ call.plaintext_len = call.plaintext_len_before
    /\ \A a \in seen, b \in seen :
          /\ a.code = "DecryptionFailed" /\ a.code = b.code
          /\ a.error = b.error
          /\ a.unchanged /\ b.unchanged

\* one decryption has failed at the IBE check and another at the tag
C5_Witness ==
    /\ call.op = "decrypt" /\ call.cause = "aead"
    /\ \E a \in seen, b \in seen : a.cause = "ibe" /\ b.cause = "aead"

-----------------------------------------------------------------------------
(* C7: timelock_create_drand_identity returns Success exactly when the      *)
(* output pointer is non-null and identity_len >= 32; then the first 32     *)
(* bytes of the buffer are SHA-256 of the round number as 8 big-endian      *)
(* bytes, a function of the round alone; otherwise it returns InvalidInput  *)
(* and the buffer is as it was.                                             *)
C7_CreateDrandIdentity ==
    call.op = "create_drand_identity" =>
        LET valid == ~is_null(call.before)
                        /\ call.identity_len >= TIMELOCK_IDENTITY_SIZE
        IN /\ call.code = "Success" <=> valid
           /\ valid =>
                SubSeq(call.after.mem, 1, TIMELOCK_IDENTITY_SIZE)
                    = sha256(to_be_bytes(call.round_number, U64_SIZE))
           /\ ~valid => call.code = "InvalidInput" /\ call.after = call.before

\* the second thread derives the identity of a round into a longer buffer
C7_Witness ==
    /\ call.op = "create_drand_identity" /\ call.code = "Success"
    /\ call.thread = "t2" /\ call.round_number = MaxRound
    /\ call.identity_len > TIMELOCK_IDENTITY_SIZE
    /\ SubSeq(call.after.mem, 1, TIMELOCK_IDENTITY_SIZE) = DrandIdentity(MaxRound)

-----------------------------------------------------------------------------
(* C8: in timelock_encrypt, once the secret key is copied into the local    *)
(* buffer, the buffer is all zero at every return: the returns for bad      *)
(* UTF-8, bad hex, an invalid point and a failure of tle, the return of a   *)
(* serialization error and the return of Success.                           *)
C8_LocalKeyZeroized ==
    call.op = "encrypt" =>
        /\ call.copied <=> call.path \in {"utf8", "hex", "point", "tle",
                                          "serialize", "success"}
        /\ call.copied => call.secret_key_array = Zeros(HASH_LENGTH)

\* tle fails after a non-zero key was copied
C8_Witness ==
    /\ call.op = "encrypt" /\ call.path = "tle" /\ call.code = "EncryptionFailed"
    /\ call.copied /\ call.secret_key_before.mem # Zeros(HASH_LENGTH)
    /\ call.secret_key_array = Zeros(HASH_LENGTH)

-----------------------------------------------------------------------------
(* C10 as claimed: after timelock_encrypt returns, on any return path, the  *)
(* caller's 32 bytes behind the secret_key pointer are all zero.            *)
C10_CallerKeyZero ==
    (call.op = "encrypt" /\ ~is_null(call.secret_key_after))
        => call.secret_key_after.mem = Zeros(HASH_LENGTH)

(* C10 as amended: after timelock_encrypt returns, on any return path, the  *)
(* caller's 32 bytes behind the secret_key pointer are the bytes the caller *)
(* passed; the handler reads them and zeroes its local copy only.           *)
C10_CallerKeyUnchanged ==
    call.op = "encrypt" =>
        /\ call.secret_key_after = call.secret_key_before
        /\ (call.copied /\ call.secret_key_before.mem # Zeros(HASH_LENGTH))
              => call.secret_key_array # call.secret_key_after.mem

\* a successful encryption leaves the caller's non-zero key in place
C10_Witness ==
    /\ call.op = "encrypt" /\ call.code = "Success" /\ call.stored
    /\ call.secret_key_after.mem = call.secret_key_before.mem
    /\ call.secret_key_after.mem # Zeros(HASH_LENGTH)
    /\ call.secret_key_array = Zeros(HASH_LENGTH)

-----------------------------------------------------------------------------
(* Reference definitions for the properties of the FFI calls *)

\* the operations that return a TimelockResult and report through LAST_ERROR
ReportingOps == {"init", "create_drand_identity", "encrypt", "estimate", "decrypt"}

\* a timelock_encrypt call with a null pointer or an identity_len other than 32
EncryptArgumentInvalid ==
    \/ is_null(call.message) \/ is_null(call.identity)
    \/ is_null(call.public_key_hex) \/ is_null(call.secret_key_before)
    \/ is_null(call.ciphertext_out_before)
    \/ call.identity_len # TIMELOCK_IDENTITY_SIZE

\* a public key string that is text but not the hex of the compressed form
\* of any point of the public-key group
PublicKeyRefused(hex) ==
    /\ \A i \in 1..Len(hex) : hex[i] # INVALID_UTF8
    /\ hex \notin {hex_encode(serialize_point(p)) : p \in PublicKeyGroup}

\* a timelock_decrypt call with a null pointer or a null data pointer
DecryptArgumentNull ==
    \/ call.ciphertext_null \/ call.data_null \/ is_null(call.signature_hex)
    \/ is_null(call.plaintext_out_before) \/ is_null(call.plaintext_len_before)

\* a timelock_decrypt call on the ciphertext as allocated, under the signature
\* of its round, with every pointer valid
DecryptHonest ==
    /\ call.op = "decrypt" /\ ~DecryptArgumentNull /\ call.untampered
    /\ call.signature_hex.mem = HonestSignatureHex(heap[call.handle])

-----------------------------------------------------------------------------
(* C11: in timelock_encrypt every validation step (null pointers,           *)
(* identity_len, UTF-8 of the public key, its hex decoding and its          *)
(* deserialization to a point) is over before the secret key is read into   *)
(* a local buffer: a call that copied the key has passed all of them.       *)
C11_ValidationBeforeKeyRead ==
    (call.op = "encrypt" /\ call.copied)
        => call.path \in {"tle", "serialize", "success"}

-----------------------------------------------------------------------------
(* C12: after a call of timelock_init, timelock_create_drand_identity,      *)
(* timelock_encrypt, timelock_estimate_ciphertext_size or timelock_decrypt  *)
(* that returns a code other than Success, MemoryError included, the        *)
(* thread's last error is non-null and was written by that call.            *)
C12_LastErrorSetOnFailure ==
    (call.op \in ReportingOps /\ call.code # "Success") =>
        /\ call.error \notin {KEEP, None}
        /\ last_error[call.thread] = call.error
        /\ timelock_get_last_error(last_error[call.thread]) # NULL

-----------------------------------------------------------------------------
(* C13: immediately after timelock_init, timelock_create_drand_identity,    *)
(* timelock_encrypt, timelock_estimate_ciphertext_size or timelock_decrypt  *)
(* returns Success, timelock_get_last_error on the same thread returns      *)
(* null, whether or not an error was stored before the call.                *)
C13_LastErrorClearedOnSuccess ==
    (call.op \in ReportingOps /\ call.code = "Success") =>
        /\ call.error = None
        /\ timelock_get_last_error(last_error[call.thread]) = NULL

\* an encryption succeeds on a thread that had an error stored by a failure
C13_Witness ==
    /\ call.op = "encrypt" /\ call.code = "Success" /\ call.had_error
    /\ timelock_get_last_error(last_error[call.thread]) = NULL

-----------------------------------------------------------------------------
(* C14: timelock_encrypt with otherwise valid arguments and a public key    *)
(* string that is no hex, or is hex of bytes that are no point of the       *)
(* public-key group, returns InvalidPublicKey, leaves *ciphertext_out as it *)
(* was and creates no ciphertext allocation.                                *)
C14_InvalidPublicKey ==
    (/\ call.op = "encrypt" /\ ~EncryptArgumentInvalid
     /\ PublicKeyRefused(call.public_key_hex.mem)) =>
        /\ call.code = "InvalidPublicKey"
        /\ call.ciphertext_out_after = call.ciphertext_out_before
        /\ ~call.stored /\ ~call.allocated

\* a hex string too short for a point is refused and the caller's pointer
\* variable holds what it held
C14_Witness ==
    /\ call.op = "encrypt" /\ ~EncryptArgumentInvalid
    /\ call.public_key_hex.mem = <<"0", "1">>
    /\ call.code = "InvalidPublicKey"
    /\ call.ciphertext_out_after = Ptr(STALE)

-----------------------------------------------------------------------------
(* C15: timelock_encrypt returns InvalidInput whenever message, identity,   *)
(* public_key_hex, secret_key or ciphertext_out is null or identity_len is  *)
(* not 32, before the public key is looked at: a null message with a        *)
(* non-hex public key gives InvalidInput, not InvalidPublicKey.             *)
C15_EncryptInvalidInput ==
    (call.op = "encrypt" /\ EncryptArgumentInvalid) =>
        /\ call.code = "InvalidInput"
        /\ call.path = "validate"
        /\ ~call.copied /\ ~call.stored

\* a null message together with a public key string that is no hex
C15_Witness ==
    /\ call.op = "encrypt" /\ is_null(call.message)
    /\ ~is_null(call.public_key_hex) /\ call.public_key_hex.mem = NoHex
    /\ call.code = "InvalidInput"

-----------------------------------------------------------------------------
(* C16: timelock_decrypt returns InvalidInput whenever the ciphertext       *)
(* pointer, signature_hex, plaintext_out or plaintext_len is null or the    *)
(* ciphertext's data pointer is null; it then parses no signature (the      *)
(* error is that of the pointer check whatever the signature string) and    *)
(* leaves plaintext_out and *plaintext_len as they were.                    *)
C16_DecryptInvalidInput ==
    (call.op = "decrypt" /\ DecryptArgumentNull) =>
        /\ call.code = "InvalidInput"
        /\ call.error \in {"Invalid input parameters: null pointers not allowed",
                           "Invalid ciphertext: null data pointer"}
        /\ call.plaintext_out = call.plaintext_out_before
        /\ call.plaintext_len = call.plaintext_len_before

\* a null plaintext_out together with a signature string that is no hex
C16_Witness ==
    /\ call.op = "decrypt" /\ is_null(call.plaintext_out_before)
    /\ ~is_null(call.signature_hex) /\ call.signature_hex.mem = NoHex
    /\ call.code = "InvalidInput"

-----------------------------------------------------------------------------
(* C17: the buffer-too-small protocol of timelock_decrypt. When decryption  *)
(* succeeds with a plaintext of L bytes and *plaintext_len < L, the call    *)
(* returns MemoryError, sets *plaintext_len to L and leaves plaintext_out;  *)
(* with the same ciphertext and signature and a buffer of at least L bytes  *)
(* it returns Success, writes the L plaintext bytes and no other, and sets  *)
(* *plaintext_len to L.                                                     *)
C17_BufferTooSmall ==
    /\ DecryptHonest =>
         LET plaintext == heap[call.handle].message
             L == Len(plaintext)
             capacity == call.plaintext_len_before.mem
         IN IF capacity < L
            THEN /\ call.code = "MemoryError"
                 /\ call.plaintext_len = Ptr(L)
                 /\ call.plaintext_out = call.plaintext_out_before
            ELSE /\ call.code = "Success"
                 /\ call.plaintext_len = Ptr(L)
                 /\ SubSeq(call.plaintext_out.mem, 1, L) = plaintext
                 /\ \A i \in (L + 1)..capacity :
                      call.plaintext_out.mem[i] = call.plaintext_out_before.mem[i]
    /\ (call.op = "decrypt" /\ call.code = "MemoryError") =>
         /\ call.plaintext_out = call.plaintext_out_before
         /\ call.plaintext_len.mem > call.plaintext_len_before.mem

\* the call after a MemoryError, with the same ciphertext and signature and a
\* buffer longer than the plaintext, succeeds
C17_Witness ==
    /\ DecryptHonest /\ call.retry /\ call.code = "Success"
    /\ Len(heap[call.handle].message) > 0
    /\ call.plaintext_len_before.mem > Len(heap[call.handle].message)
    /\ call.plaintext_len = Ptr(Len(heap[call.handle].message))

-----------------------------------------------------------------------------
(* C18: for every message_len whose sum with 220 fits a usize,              *)
(* timelock_estimate_ciphertext_size returns Success and writes             *)
(* message_len + 220.                                                       *)
C18_EstimateIsLenPlus220 ==
    (/\ call.op = "estimate" /\ ~is_null(call.before)
     /\ call.message_len + 220 <= USIZE_MAX) =>
        /\ call.code = "Success"
        /\ call.after = Ptr(call.message_len + 220)

-----------------------------------------------------------------------------
(* C19: the size estimate is an upper bound: the value written by           *)
(* timelock_estimate_ciphertext_size for a message of n bytes is at least   *)
(* the length of the serialized ciphertext of an n-byte message.            *)
C19_EstimateIsUpperBound ==
    (call.op = "estimate" /\ call.code = "Success") =>
        call.after.mem >= serialized_size(call.message_len)

-----------------------------------------------------------------------------
(* C20: timelock_estimate_ciphertext_size never wraps. When message_len     *)
(* plus the overhead exceeds the largest usize it returns InvalidInput,     *)
(* leaves *estimated_size_out as it was and sets the last error; with a     *)
(* null output pointer it returns InvalidInput for every message_len; a     *)
(* value it writes is the exact sum.                                        *)
C20_EstimateNeverWraps ==
    call.op = "estimate" =>
        LET sum == call.message_len + TIMELOCK_CIPHERTEXT_OVERHEAD
        IN /\ is_null(call.before) => call.code = "InvalidInput"
           /\ (~is_null(call.before) /\ sum > USIZE_MAX) =>
                /\ call.code = "InvalidInput"
                /\ call.after = call.before
                /\ call.error \notin {KEEP, None}
                /\ last_error[call.thread] = call.error
           /\ call.code = "Success" =>
                /\ sum <= USIZE_MAX
                /\ call.after = Ptr(sum)

\* the smallest message_len whose sum with the overhead does not fit
C20_Witness ==
    /\ call.op = "estimate" /\ ~is_null(call.before)
    /\ call.message_len = USIZE_MAX - TIMELOCK_CIPHERTEXT_OVERHEAD + 1
    /\ call.code = "InvalidInput" /\ call.after = call.before
    /\ last_error[call.thread] = "Integer overflow when estimating ciphertext size"

-----------------------------------------------------------------------------
(* The hash utilities called on their own: cross_product_const::<N> for     *)
(* every width N up to MaxWidth on slices shorter than, as long as and      *)
(* longer than N, and h4 on slices of every length, on both byte orders     *)

\* the widest N of cross_product_const::<N>; slices are one byte longer at most
MaxWidth == 9

\* the slice of n bytes that repeats the pattern s
Cycle(s, n) == [i \in 1..n |-> s[((i - 1) % Len(s)) + 1]]
Seeds == {<<0, 0, 1>>, <<0, 1, 1>>, <<1, 0, 1>>, <<1, 1, 0>>}
Slices == {Cycle(s, n) : s \in Seeds, n \in 0..(MaxWidth + 1)}

\* how a call ended: with a value, or in a panic; the functions return no Result
Outcome(result) == IF result = PANIC THEN "panic" ELSE "value"

UtilsInit ==
    /\ target_endian \in {"little", "big"}
    /\ ibe \in [pc : {"slices"}, a : Slices, b : Slices]
    /\ dec = NoDec
    /\ TlockIdle
    /\ FfiIdle

\* cross_product_const::<N>(&a, &b)
CrossProduct ==
    /\ ibe.pc = "slices"
    /\ \E N \in 0..MaxWidth :
         \E result \in {cross_product_const(N, ibe.a, ibe.b)} :
            ibe' = [pc |-> "xor", a |-> ibe.a, b |-> ibe.b, N |-> N,
                    result |-> result, outcome |-> Outcome(result)]
    /\ UNCHANGED <<target_endian, dec, tlockVars, ffiVars>>

\* cross_product_const::<N>(&result, &b) of the result of a call that returned
CrossProductAgain ==
    /\ ibe.pc = "xor"
    /\ ibe.outcome = "value"
    /\ \E again \in {cross_product_const(ibe.N, ibe.result, ibe.b)} :
         ibe' = [pc |-> "xor2", a |-> ibe.a, b |-> ibe.b, N |-> ibe.N,
                 result |-> ibe.result, outcome |-> ibe.outcome, again |-> again]
    /\ UNCHANGED <<target_endian, dec, tlockVars, ffiVars>>

\* h4(&a)
H4 ==
    /\ ibe.pc = "slices"
    /\ \E result \in {h4(ibe.a)} :
         ibe' = [pc |-> "h4", a |-> ibe.a, b |-> ibe.b,
                 result |-> result, outcome |-> Outcome(result)]
    /\ UNCHANGED <<target_endian, dec, tlockVars, ffiVars>>

UtilsNext == CrossProduct \/ CrossProductAgain \/ H4

SpecUtils == UtilsInit /\ [][UtilsNext]_vars

-----------------------------------------------------------------------------
(* C23 as claimed: cross_product_const::<N> fails with the error value      *)
(* InvalidLength, and does not abort, whenever one of the two slices is     *)
(* shorter than N bytes.                                                    *)
C23_ShortSliceIsInvalidLength ==
    (/\ ibe.pc = "xor"
     /\ (Len(ibe.a) < ibe.N \/ Len(ibe.b) < ibe.N))
        => ibe.outcome = "InvalidLength"

-----------------------------------------------------------------------------
(* C24 as claimed: h4 never fails, and for every input a of any length it   *)
(* returns the first HASH_LENGTH (32) bytes of SHA-256(a), which the code's *)
(* documentation gives as an output of exactly len(a) bytes.                *)
C24_H4IsTheDigestPrefix ==
    (ibe.pc = "h4")
        => /\ ibe.outcome = "value"
           /\ ibe.result = SubSeq(sha256(ibe.a), 1, HASH_LENGTH)

-----------------------------------------------------------------------------
(* C27: for every width N, a multiple of 8 or not, below 8 or above, and    *)
(* all slices a and b of at least N bytes, cross_product_const::<N>(a, b)   *)
(* is the byte-wise XOR of the first N bytes of a and b on either byte      *)
(* order: N bytes, each index written once, the bytes past N ignored; and   *)
(* XOR-ing the result with b again gives the first N bytes of a back.       *)
C27_ChunkedXorIsByteXor ==
    (/\ ibe.pc \in {"xor", "xor2"}
     /\ Len(ibe.a) >= ibe.N /\ Len(ibe.b) >= ibe.N)
        => /\ ibe.outcome = "value"
           /\ Len(ibe.result) = ibe.N
           /\ \A k \in 1..ibe.N : ibe.result[k] = (ibe.a[k] + ibe.b[k]) % 2
           /\ ibe.result = cross_product_const(ibe.N, SubSeq(ibe.a, 1, ibe.N),
                                               SubSeq(ibe.b, 1, ibe.N))
           /\ ibe.pc = "xor2" => ibe.again = SubSeq(ibe.a, 1, ibe.N)

\* a full chunk and a remainder on a little-endian build, slices longer than
\* N whose chunk is not a palindrome, and the XOR undone
C27_Witness ==
    /\ ibe.pc = "xor2"
    /\ target_endian = "little"
    /\ ibe.N = CHUNK + 1
    /\ Len(ibe.a) > ibe.N /\ Len(ibe.b) > ibe.N
    /\ ibe.result[ibe.N] = 1
    /\ SubSeq(ibe.result, 1, CHUNK) # Reverse(SubSeq(ibe.result, 1, CHUNK))
    /\ ibe.again = SubSeq(ibe.a, 1, ibe.N)

-----------------------------------------------------------------------------
\* what Message::new feeds to SHAKE-128: context, the length of the message as
\* 8 little-endian bytes, the message
DigestInput(context, message) ==
    context \o to_le_bytes(Len(message), U64_SIZE) \o message

-----------------------------------------------------------------------------
(* C26: every ciphertext of Identity::encrypt(m, p_pub, rng) is well        *)
(* formed. V and W have HASH_LENGTH (32) bytes, U = r*P with                *)
(* r = H3(sigma, m), V = sigma XOR H2(e(r*p_pub, Q_id)) and                 *)
(* W = m XOR H4(sigma), where sigma is the one value drawn from the rng:    *)
(* each part is given as a function of (m, p_pub, identity, sigma) alone.   *)
C26_CiphertextWellFormed ==
    (ibe.pc = "encrypted" /\ ~dec.called) =>
        LET r == from_be_bytes_mod_order(sha256(ibe.drawn \o ibe.message))
            Q_id == Identity_public(ibe.identity)
        IN /\ Len(ibe.ct.v) = HASH_LENGTH /\ Len(ibe.ct.w) = HASH_LENGTH
           /\ ibe.sigma = ibe.drawn
           /\ ibe.r = r
           /\ ibe.ct.u = Mul(generator_pk, r)
           /\ ibe.ct.v = XorBytes(ibe.drawn, h2(pairing(Mul(ibe.p_pub, r), Q_id)))
           /\ ibe.ct.w = XorBytes(ibe.message, h4(ibe.drawn))

\* an encryption whose three parts all carry something: r, the pairing value
\* and both masks are non-zero
C26_Witness ==
    /\ ibe.pc = "encrypted" /\ ~dec.called
    /\ ibe.r > 1 /\ ibe.msk > 1 /\ ibe.g_id # 0
    /\ ibe.ct.u = Mul(generator_pk, ibe.r)
    /\ ibe.ct.v # ibe.drawn /\ ibe.ct.w # ibe.message
    /\ ibe.message # Zeros(HASH_LENGTH) /\ ibe.drawn # Zeros(HASH_LENGTH)

-----------------------------------------------------------------------------
(* C29: ownership of a ciphertext. timelock_encrypt writes *ciphertext_out   *)
(* and hands the caller an allocation, the struct and a data buffer of       *)
(* `len` bytes, exactly when it returns Success; a failing encrypt leaves    *)
(* the pointer as it was and no allocation; after timelock_ciphertext_free   *)
(* of the returned ciphertext no allocation is live; and                     *)
(* timelock_ciphertext_free(null) changes nothing.                           *)
C29_CiphertextOwnership ==
    /\ (call.op = "encrypt" /\ call.code = "Success") =>
          /\ call.allocated /\ call.stored
          /\ \E h \in Handles :
               /\ heap[h].live
               /\ call.ciphertext_out_after =
                    Ptr(Ptr([data |-> Ptr(heap[h].data), len |-> Len(heap[h].data)]))
    /\ (call.op = "encrypt" /\ call.code # "Success") =>
          /\ ~call.allocated /\ ~call.stored
          /\ call.ciphertext_out_after = call.ciphertext_out_before
          /\ \A h \in Handles : ~heap[h].live
    /\ (call.op = "free" /\ ~call.null) =>
          \A h \in Handles : ~heap[h].live
    /\ (call.op = "free" /\ call.null) => call.kept

\* the ciphertext of an encryption is freed on a thread that holds an error of
\* an earlier failure, which the free leaves in place
C29_Witness ==
    /\ call.op = "free" /\ ~call.null /\ call.had_error
    /\ last_error[call.thread] # None
    /\ \A h \in Handles : ~heap[h].live

-----------------------------------------------------------------------------
(* C22: timelock_init and timelock_cleanup may be called any number of      *)
(* times in any order. Every timelock_init returns Success; after an init   *)
(* or a cleanup the last error of the thread is null; a thread holds an     *)
(* error only if one of its calls failed; and neither call changes anything *)
(* another operation reads but the last error of the calling thread, so the *)
(* results of the other operations, which are functions of their arguments, *)
(* are the same with or without them.                                       *)
C22_InitCleanup ==
    /\ [](/\ (call.op = "init") =>
                call.code = "Success" /\ last_error[call.thread] = None
          /\ (call.op = "cleanup") => last_error[call.thread] = None
          /\ \A t \in Threads :
               (last_error[t] # None) =>
                  /\ t = call.thread
                  /\ \/ call.op \in {"free", "get_last_error"} /\ call.had_error
                     \/ /\ call.op \in ReportingOps \ {"init"}
                        /\ call.had_error \/ call.code # "Success"
          /\ (call.op = "create_drand_identity") =>
                LET r == timelock_create_drand_identity(call.round_number,
                                                        call.before, call.identity_len)
                IN call.code = r.code /\ call.after = r.identity_out
          /\ (call.op = "estimate") =>
                LET r == timelock_estimate_ciphertext_size(call.message_len, call.before)
                IN call.code = r.code /\ call.after = r.estimated_size_out)
    /\ [][(call'.op \in {"init", "cleanup"}) =>
            /\ heap' = heap /\ seen' = seen
            /\ last_error' = [last_error EXCEPT ![call'.thread] = None]]_vars

\* a cleanup on a thread that held the error of a failed call
C22_Witness ==
    /\ call.op = "cleanup" /\ call.had_error
    /\ last_error[call.thread] = None

-----------------------------------------------------------------------------
(* timelock_decrypt on its own: the calls of one thread that encrypts and   *)
(* then decrypts, under every pairing of a good or bad signature string     *)
(* with a good or bad ciphertext and buffer, each call recorded with what   *)
(* its arguments were                                                       *)

\* two ciphertexts that are not the allocated one: its bytes with the last
\* one cut off, and with the last bit flipped
Malformed(data) == {SubSeq(data, 1, Len(data) - 1), FlipBit(data, Len(data))}

\* further arguments of timelock_decrypt: a refused signature string together
\* with a changed ciphertext; and a buffer of no bytes together with a
\* changed ciphertext or another signature
OrderInputs(c) ==
    [data : Malformed(c.data), hex : {<<INVALID_UTF8>>, NoHex, NoPointHex},
     capacity : {Len(c.message)}, fault : {"none", "null_plaintext_out"}]
      \cup [data : Malformed(c.data), hex : {HonestSignatureHex(c)}, capacity : {0},
            fault : {"none"}]
      \cup [data : {c.data}, hex : SignatureHex, capacity : {0}, fault : {"none"}]

\* the allocation c once a call has returned that was given it as its
\* ciphertext and left `ciphertext` behind the pointer
AfterCall(c, ciphertext) ==
    IF is_null(ciphertext.mem.data) THEN [live |-> FALSE]
    ELSE [c EXCEPT !.data = SubSeq(ciphertext.mem.data.mem, 1, ciphertext.mem.len)]

\* what the bytes `data` and the signature string `hex` are to the steps of
\* timelock_decrypt: whether the bytes deserialize, and, where the string is a
\* signature too, whether tld opens them and how long the plaintext is
Opened(data, hex) ==
    LET bytes == hex_decode(hex)
        signature == IF bytes.ok THEN deserialize_point(bytes.value) ELSE bytes
        timelock_ciphertext == deserialize_compressed(data)
        plaintext == IF signature.ok /\ timelock_ciphertext.ok
                     THEN tld(timelock_ciphertext.value, signature.value)
                     ELSE [ok |-> FALSE]
    IN [deserializes |-> timelock_ciphertext.ok, decrypts |-> plaintext.ok,
        len |-> IF plaintext.ok THEN Len(plaintext.value) ELSE 0]

DecryptCall(t) ==
    /\ \E h \in Handles :
         /\ heap[h].live
         /\ \E in \in DecryptInputs(heap[h]) \cup OrderInputs(heap[h]) :
              LET arg(name, mem) == IF in.fault = name THEN NULL ELSE Ptr(mem)
                  ciphertext == arg("null_ciphertext",
                                    [data |-> arg("null_data", in.data),
                                     len |-> Len(in.data)])
                  signature_hex == arg("null_signature_hex", in.hex)
                  plaintext_out == arg("null_plaintext_out", Ones(in.capacity))
                  plaintext_len == arg("null_plaintext_len", in.capacity)
                  allocation == /\ in.data = heap[h].data
                                /\ in.fault \notin {"null_ciphertext", "null_data"}
              IN \E r \in {timelock_decrypt(ciphertext, signature_hex,
                                            plaintext_out, plaintext_len)},
                    opened \in {Opened(in.data, in.hex)} :
                 /\ last_error' = WithError(t, r.error)
                 /\ heap' = IF allocation
                            THEN [heap EXCEPT ![h] = AfterCall(heap[h], r.ciphertext)]
                            ELSE heap
                 /\ call' = [op |-> "decrypt", thread |-> t, code |-> r.code,
                             error |-> r.error, handle |-> h,
                             ciphertext_null |-> is_null(ciphertext),
                             data_null |-> in.fault = "null_data",
                             allocation |-> allocation,
                             deserializes |-> opened.deserializes,
                             decrypts |-> opened.decrypts,
                             needed |-> opened.len,
                             kept |-> r.ciphertext = ciphertext /\ heap' = heap,
                             signature_hex |-> signature_hex,
                             again |-> /\ call.op = "decrypt"
                                       /\ call.handle = h
                                       /\ call.allocation /\ allocation
                                       /\ call.signature_hex = signature_hex
                                       /\ call.plaintext_out_before = plaintext_out
                                       /\ call.plaintext_len_before = plaintext_len,
                             same |-> /\ call.op = "decrypt"
                                      /\ call.code = r.code
                                      /\ call.plaintext_out = r.plaintext_out
                                      /\ call.plaintext_len = r.plaintext_len,
                             plaintext_out_before |-> plaintext_out,
                             plaintext_len_before |-> plaintext_len,
                             plaintext_out |-> r.plaintext_out,
                             plaintext_len |-> r.plaintext_len]
    /\ UNCHANGED <<target_endian, seen, ibeVars, tlockVars>>

DecryptNext ==
    \E t \in Threads :
        /\ t = call.thread
        /\ \/ Encrypt(t)
           \/ DecryptCall(t)

SpecDecrypt == FfiInit /\ [][DecryptNext]_vars

-----------------------------------------------------------------------------
\* the code the order of the checks gives for the recorded arguments
FirstFailure ==
    LET hex == call.signature_hex.mem
        bytes == hex_decode(to_str(hex).value)
    IN IF \/ call.ciphertext_null \/ is_null(call.signature_hex)
          \/ is_null(call.plaintext_out_before) \/ is_null(call.plaintext_len_before)
          \/ call.data_null
       THEN "InvalidInput"
       ELSE IF ~to_str(hex).ok THEN "InvalidInput"
       ELSE IF ~bytes.ok THEN "InvalidSignature"
       ELSE IF ~deserialize_point(bytes.value).ok THEN "InvalidSignature"
       ELSE IF ~call.deserializes THEN "SerializationError"
       ELSE IF ~call.decrypts THEN "DecryptionFailed"
       ELSE IF call.plaintext_len_before.mem < call.needed THEN "MemoryError"
       ELSE "Success"

(* C28: timelock_decrypt returns the code of the first check that fails, in *)
(* the order: null pointers or null data (InvalidInput), signature not      *)
(* UTF-8 (InvalidInput), signature not hex or not a point                   *)
(* (InvalidSignature), ciphertext not deserializable (SerializationError),  *)
(* decryption (DecryptionFailed), buffer too small (MemoryError). So a      *)
(* malformed signature with a malformed ciphertext gives InvalidSignature,  *)
(* and MemoryError is returned only when the decryption has succeeded.      *)
C28_CheckOrder ==
    (call.op = "decrypt") =>
        /\ call.code = FirstFailure
        /\ (call.code = "MemoryError") => call.decrypts
        /\ (call.code = "InvalidSignature") =>
              ~is_null(call.plaintext_out_before) /\ ~call.ciphertext_null

\* a string that is no signature, with bytes that are no ciphertext, is
\* answered with InvalidSignature
C28_Witness ==
    /\ call.op = "decrypt" /\ call.code = "InvalidSignature"
    /\ ~call.deserializes /\ ~call.allocation

-----------------------------------------------------------------------------
(* C30: timelock_decrypt leaves the ciphertext struct and its data as they  *)
(* were, and allocated, on every return path, so that the same call made    *)
(* again returns the same code and outputs; and on every return other than  *)
(* Success and MemoryError the caller's buffer and *plaintext_len are       *)
(* unchanged.                                                               *)
C30_CiphertextUntouched ==
    (call.op = "decrypt") =>
        /\ call.kept
        /\ heap[call.handle].live
        /\ call.again => call.same
        /\ (call.code \notin {"Success", "MemoryError"}) =>
              /\ call.plaintext_out = call.plaintext_out_before
              /\ call.plaintext_len = call.plaintext_len_before

\* the allocated ciphertext is decrypted a second time with the same
\* arguments, and gives the plaintext again
C30_Witness ==
    /\ call.op = "decrypt" /\ call.again /\ call.same
    /\ call.code = "Success" /\ call.needed > 0
    /\ call.kept /\ heap[call.handle].live

-----------------------------------------------------------------------------
(* Threads: every thread makes its own calls of                             *)
(* timelock_create_drand_identity, timelock_encrypt and timelock_decrypt on *)
(* its own buffers and its own ciphertext, the calls of the threads         *)
(* interleaved in every way. A call is two steps, entering with its         *)
(* arguments and running to the return; LAST_ERROR is thread_local.         *)

\* the message a thread encrypts
ThreadMessage(t) == IF t = "t1" THEN <<0, 1>> ELSE <<1, 0>>

\* the calls a thread may make, c being its ciphertext allocation
ThreadInputs(c) ==
    [op : {"create_drand_identity"}, round_number : {MaxRound},
     identity_len : {HASH_LENGTH - 1, HASH_LENGTH}]
      \cup (IF ~c.live
            THEN [op : {"encrypt"}, hex : {FirstPublicKeyHex, NoHex}]
            ELSE [op : {"decrypt"}, hex : {HonestSignatureHex(c), NoHex},
                  capacity : {0, Len(c.message)}])

\* what a thread keeps of the return of each handler: the code, the effect on
\* the last error, the caller's outputs, and the allocation made
CreateReturn(r) ==
    [code |-> r.code, error |-> r.error, out |-> r.identity_out, ciphertext |-> NULL]
EncryptReturn(r) ==
    [code |-> r.code, error |-> r.error, out |-> r.ciphertext_out,
     ciphertext |-> r.ciphertext]
DecryptReturn(r) ==
    [code |-> r.code, error |-> r.error,
     out |-> <<r.plaintext_out, r.plaintext_len>>, ciphertext |-> NULL]

\* the call `in` of thread t, on its own buffers and its ciphertext c, run to
\* its return
ThreadResult(t, in, c) ==
    IF in.op = "create_drand_identity"
    THEN CreateReturn(timelock_create_drand_identity(in.round_number,
                                                     Ptr(Ones(in.identity_len)),
                                                     in.identity_len))
    ELSE IF in.op = "encrypt"
    THEN EncryptReturn(timelock_encrypt(Ptr(ThreadMessage(t)),
                                        Ptr(DrandIdentity(MaxRound)), HASH_LENGTH,
                                        Ptr(in.hex), Ptr(Ones(HASH_LENGTH)), Ptr(STALE),
                                        [ok |-> TRUE, sigma |-> Ones(HASH_LENGTH),
                                         nonce |-> Ones(NONCE_SIZE),
                                         serialize_ok |-> TRUE]))
    ELSE DecryptReturn(timelock_decrypt(Ptr([data |-> Ptr(c.data), len |-> Len(c.data)]),
                                        Ptr(in.hex), Ptr(Ones(in.capacity)),
                                        Ptr(in.capacity)))

ThreadsInit ==
    /\ target_endian = "little"
    /\ last_error = NoErrors
    /\ heap = [t \in Threads |-> [live |-> FALSE]]
    /\ call = [t \in Threads |-> [pc |-> "idle"]]
    /\ seen = {}
    /\ IbeIdle
    /\ TlockIdle

\* thread t enters a call
ThreadCall(t) ==
    /\ call[t].pc \in {"idle", "returned"}
    /\ \E in \in ThreadInputs(heap[t]) :
         call' = [call EXCEPT ![t] = [pc |-> "called", in |-> in,
                                      before |-> last_error[t]]]
    /\ UNCHANGED <<target_endian, last_error, heap, seen, ibeVars, tlockVars>>

\* the call of thread t runs to its return
ThreadReturn(t) ==
    /\ call[t].pc = "called"
    /\ \E r \in {ThreadResult(t, call[t].in, heap[t])} :
         /\ last_error' = WithError(t, r.error)
         /\ heap' = IF is_null(r.ciphertext) THEN heap
                    ELSE [heap EXCEPT ![t] =
                            [live |-> TRUE, data |-> r.ciphertext.mem,
                             message |-> ThreadMessage(t),
                             identity |-> DrandIdentity(MaxRound),
                             public_key |-> Mul(generator_pk, 1)]]
         /\ call' = [call EXCEPT ![t] = [pc |-> "returned", in |-> call[t].in,
                                         before |-> call[t].before,
                                         code |-> r.code, out |-> r.out]]
    /\ UNCHANGED <<target_endian, seen, ibeVars, tlockVars>>

ThreadsNext == \E t \in Threads : ThreadCall(t) \/ ThreadReturn(t)

SpecThreads == ThreadsInit /\ [][ThreadsNext]_vars

-----------------------------------------------------------------------------
(* C21: thread non-interference. Under every interleaving of the calls of   *)
(* the threads, each on its own buffers, the code and the outputs a thread  *)
(* gets from timelock_create_drand_identity, timelock_encrypt or            *)
(* timelock_decrypt, and its last error, are those it would get running     *)
(* alone; a failure or a success of one thread neither sets nor clears the  *)
(* last error of another, before, during or after that thread's own calls.  *)
C21_ThreadNonInterference ==
    \A t \in Threads :
        /\ (call[t].pc = "idle") => last_error[t] = None
        /\ (call[t].pc = "called") => last_error[t] = call[t].before
        /\ (call[t].pc = "returned") =>
              LET alone == ThreadResult(t, call[t].in,
                                        IF call[t].in.op = "encrypt"
                                        THEN [live |-> FALSE] ELSE heap[t])
              IN /\ call[t].code = alone.code
                 /\ call[t].out = alone.out
                 /\ last_error[t] = IF alone.error = KEEP THEN call[t].before
                                    ELSE alone.error

\* t1 has decrypted its ciphertext, which cleared an error of its own, while
\* t2, whose decryption failed, is inside its next call and still holds its
\* error
C21_Witness ==
    /\ call["t1"].pc = "returned" /\ call["t1"].in.op = "decrypt"
    /\ call["t1"].code = "Success" /\ call["t1"].before # None
    /\ last_error["t1"] = None
    /\ call["t2"].pc = "called" /\ call["t2"].in.op = "decrypt"
    /\ last_error["t2"] = "Invalid hex encoding in signature"

=============================================================================
